---------------------------- MODULE Spec2Model ----------------------------
(***************************************************************************)
(* Macro aggregation, partner-name normalization and peer comparison of    *)
(* the earnings analyzer (src/lib/macro.ts, second revision in the file,   *)
(* lines 456-1123), over the company directory of src/unnamed/part_000 and *)
(* the record files written by the batch script src/unnamed/part_009.      *)
(*                                                                         *)
(* JavaScript strings are TLA+ strings; undefined is the string            *)
(* "undefined" in string-valued fields and a tagged record elsewhere;      *)
(* numbers are tagged records so that NaN and a missing value are values   *)
(* of their own; a string-or-null result is a sequence of length <= 1.     *)
(***************************************************************************)
EXTENDS Integers, Sequences, FiniteSets, TLC

(***************************************************************************)
(* String primitives of the JavaScript runtime used by macro.ts.           *)
(***************************************************************************)
UpperCaseLetters == "ABCDEFGHIJKLMNOPQRSTUVWXYZ"

LowerCaseLetters == "abcdefghijklmnopqrstuvwxyz"

CharAt(s, i) == SubSeq(s, i, i)

LowerCaseOf ==
    [c \in {CharAt(UpperCaseLetters, i) : i \in 1..Len(UpperCaseLetters)} |->
        CharAt(LowerCaseLetters,
               CHOOSE i \in 1..Len(UpperCaseLetters) : CharAt(UpperCaseLetters, i) = c)]

LowerChar(c) == IF c \in DOMAIN LowerCaseOf THEN LowerCaseOf[c] ELSE c

\* the conversion that leaves the letter case as it is
toLowerCase_AsIs(s) == s

\* every character is lowered on its own, so the string may be lowered by halves
RECURSIVE toLowerCase(_)
toLowerCase(s) ==
    IF Len(s) <= 1 THEN LowerChar(s)
    ELSE LET half == Len(s) \div 2
             halves == <<SubSeq(s, 1, half), SubSeq(s, half + 1, Len(s))>>
             lowered == [h \in 1..2 |-> toLowerCase(halves[h])]
         IN  lowered[1] \o lowered[2]

IsSpace(c) == c \in {" ", "\t", "\n", "\r"}

RECURSIVE trimStart(_)
trimStart(s) ==
    IF Len(s) > 0 /\ IsSpace(CharAt(s, 1)) THEN trimStart(Tail(s)) ELSE s

RECURSIVE trimEnd(_)
trimEnd(s) ==
    IF Len(s) > 0 /\ IsSpace(CharAt(s, Len(s)))
    THEN trimEnd(SubSeq(s, 1, Len(s) - 1))
    ELSE s

trim(s) == trimEnd(trimStart(s))

includes(s, sub) ==
    \E i \in 0..(Len(s) - Len(sub)) : SubSeq(s, i + 1, i + Len(sub)) = sub

startsWith(s, prefix) ==
    Len(prefix) <= Len(s) /\ SubSeq(s, 1, Len(prefix)) = prefix

endsWith(s, suffix) ==
    Len(suffix) <= Len(s) /\ SubSeq(s, Len(s) - Len(suffix) + 1, Len(s)) = suffix

\* s.split(" ").length: one token more than there are single spaces
SplitLength(s) == Cardinality({i \in 1..Len(s) : CharAt(s, i) = " "}) + 1

(***************************************************************************)
(* Partner name normalizer (src/lib/macro.ts 461-656).                     *)
(***************************************************************************)
PARTNER_NAME_MAP ==
    ("microsoft corporation" :> "Microsoft")
    @@ ("msft" :> "Microsoft")
    @@ ("microsoft corp" :> "Microsoft")
    @@ ("google" :> "Google")
    @@ ("alphabet" :> "Google")
    @@ ("googl" :> "Google")
    @@ ("google search licensing" :> "Google")
    @@ ("amazon" :> "Amazon")
    @@ ("amazon.com" :> "Amazon")
    @@ ("amzn" :> "Amazon")
    @@ ("aws" :> "AWS")
    @@ ("amazon web services" :> "AWS")
    @@ ("meta" :> "Meta")
    @@ ("meta platforms" :> "Meta")
    @@ ("facebook" :> "Meta")
    @@ ("apple" :> "Apple")
    @@ ("apple inc" :> "Apple")
    @@ ("aapl" :> "Apple")
    @@ ("nvidia" :> "NVIDIA")
    @@ ("nvidia corporation" :> "NVIDIA")
    @@ ("nvda" :> "NVIDIA")
    @@ ("rivian" :> "Rivian")
    @@ ("rivian electric vehicle" :> "Rivian")
    @@ ("rivian electric vehicle collaboration" :> "Rivian")
    @@ ("openai" :> "OpenAI")
    @@ ("open ai" :> "OpenAI")
    @@ ("openai global llc" :> "OpenAI")
    @@ ("anthropic" :> "Anthropic")
    @@ ("salesforce" :> "Salesforce")
    @@ ("salesforce.com" :> "Salesforce")
    @@ ("oracle" :> "Oracle")
    @@ ("oracle corporation" :> "Oracle")
    @@ ("ibm" :> "IBM")
    @@ ("snowflake" :> "Snowflake")
    @@ ("databricks" :> "Databricks")
    @@ ("tsmc" :> "TSMC")
    @@ ("taiwan semiconductor" :> "TSMC")
    @@ ("taiwan semiconductor manufacturing" :> "TSMC")
    @@ ("samsung" :> "Samsung")
    @@ ("samsung electronics" :> "Samsung")
    @@ ("samsung bioepis" :> "Samsung")
    @@ ("samsung bioepis (biosimilars)" :> "Samsung")
    @@ ("umc" :> "UMC")
    @@ ("umc collaboration on 12nm foundry process" :> "UMC")
    @@ ("intel" :> "Intel")
    @@ ("intel corporation" :> "Intel")
    @@ ("amd" :> "AMD")
    @@ ("advanced micro devices" :> "AMD")
    @@ ("qualcomm" :> "Qualcomm")
    @@ ("broadcom" :> "Broadcom")
    @@ ("arm" :> "ARM")
    @@ ("arm holdings" :> "ARM")
    @@ ("pfizer" :> "Pfizer")
    @@ ("pfizer inc" :> "Pfizer")
    @@ ("merck" :> "Merck")
    @@ ("merck & co" :> "Merck")
    @@ ("johnson & johnson" :> "J&J")
    @@ ("j&j" :> "J&J")
    @@ ("roche" :> "Roche")
    @@ ("roche holding" :> "Roche")
    @@ ("novartis" :> "Novartis")
    @@ ("sanofi" :> "Sanofi")
    @@ ("astrazeneca" :> "AstraZeneca")
    @@ ("gsk" :> "GSK")
    @@ ("glaxosmithkline" :> "GSK")
    @@ ("eli lilly" :> "Eli Lilly")
    @@ ("lilly" :> "Eli Lilly")
    @@ ("abbvie" :> "AbbVie")
    @@ ("regeneron" :> "Regeneron")
    @@ ("moderna" :> "Moderna")
    @@ ("biontech" :> "BioNTech")
    @@ ("vertex" :> "Vertex")
    @@ ("vertex pharmaceuticals" :> "Vertex")
    @@ ("gilead" :> "Gilead")
    @@ ("gilead sciences" :> "Gilead")
    @@ ("biogen" :> "Biogen")
    @@ ("amgen" :> "Amgen")
    @@ ("crispr therapeutics" :> "CRISPR Therapeutics")
    @@ ("crispr therapeutics ag" :> "CRISPR Therapeutics")
    @@ ("crispr" :> "CRISPR Therapeutics")
    @@ ("eisai" :> "Eisai")
    @@ ("takeda" :> "Takeda")
    @@ ("takeda pharmaceutical" :> "Takeda")
    @@ ("takeda pharmaceutical company" :> "Takeda")
    @@ ("sony" :> "Sony")
    @@ ("sony playstation" :> "Sony")
    @@ ("sony corporation" :> "Sony")
    @@ ("tencent" :> "Tencent")
    @@ ("alibaba" :> "Alibaba")
    @@ ("jd.com" :> "JD.com")
    @@ ("jd cloud" :> "JD.com")
    @@ ("activision" :> "Activision Blizzard")
    @@ ("activision blizzard" :> "Activision Blizzard")

EXCLUDED_PARTNERS ==
    {
      "fda", "sec", "ftc",
      "doj", "irs", "fcc",
      "epa", "darpa", "barda",
      "nih", "cdc", "cms",
      "european commission", "eu commission", "european union",
      "us government", "u.s. government", "federal government",
      "ministry of health", "ministry of health labor and welfare", "uk health security agency",
      "taiwan food and drug administration", "national institutes", "national institutes of health",
      "national institutes of allergy and infectious diseases", "cloud service providers", "cloud providers",
      "ai model collaborations", "continued ai model collaborations", "enhanced cloud service partnerships",
      "strategic partners", "global telecommunications service provider partners", "expanded content licensing agreements",
      "manufacturing investments", "domestic production", "ai infrastructure buildout",
      "north american charging standard", "nacs", "nacs adoption",
      "institute for life changing medicines", "mckesson", "mckesson corp",
      "mckesson corporation", "cardinal health", "cencora",
      "amerisourcebergen", "besse medical", "fff enterprises",
      "brookfield", "apollo", "blackstone",
      "blackstone life sciences", "scip transaction", "convertible notes",
      "bitstamp", "bitstamp (pending acquisition)", "zt systems",
      "zt systems acquisition", "inflection ai", "inflection ai inc"
    }

Null == <<>>

LegalSuffixes ==
    {"inc", "inc.", "corp", "corp.", "corporation", "llc", "ltd", "ltd.",
     "plc", "ag", "nv", "sa", "limited"}

DealSuffixes ==
    {"collaboration", "partnership", "deal", "agreement", "acquisition",
     "transaction"}

\* s.replace(/\s+(w1|w2|...)$/i, ""): the one suffix word that ends s after
\* white space is removed together with the whole white-space run before it
StripSuffix(s, words) ==
    LET low == toLowerCase(s)
        hit == {w \in words : /\ Len(w) < Len(s)
                              /\ endsWith(low, w)
                              /\ IsSpace(CharAt(s, Len(s) - Len(w)))}
    IN  IF hit = {} THEN s
        ELSE LET w == CHOOSE x \in hit : TRUE
             IN  trimEnd(SubSeq(s, 1, Len(s) - Len(w)))

\* index of the first occurrence of character c in s at or after from, else 0
IndexOfChar(s, c, from) ==
    LET at == {i \in from..Len(s) : CharAt(s, i) = c}
    IN  IF at = {} THEN 0 ELSE CHOOSE i \in at : \A j \in at : i <= j

\* s.replace(/\s*\([^)]*\)\s*/g, ""): every "(...)" goes, with the white
\* space around it
RECURSIVE StripParentheticals(_)
StripParentheticals(s) ==
    LET open  == IndexOfChar(s, "(", 1)
        close == IF open = 0 THEN 0 ELSE IndexOfChar(s, ")", open + 1)
    IN  IF open = 0 \/ close = 0 THEN s
        ELSE trimEnd(SubSeq(s, 1, open - 1))
             \o StripParentheticals(trimStart(SubSeq(s, close + 1, Len(s))))

\* PARTNER_NAME_MAP is an object literal (line 465): a key it does not own is
\* looked up on Object.prototype, whose only all-lower-case property names
\* are these two, both with a truthy value that is not a string.  Such a
\* value is written <<type, name>>, where a string s is written <<s>>
ObjectPrototype ==
    ("constructor" :> <<"function", "Object">>)
    @@ ("__proto__" :> <<"object", "Object.prototype">>)

descriptionWords ==
    {"pending", "continued", "enhanced", "expanded", "new", "ongoing"}

SubstringExclusionMinLength == 20

MaxNameTokens == 4

\* a partial match discards a name of any length
partiallyExcluded_AnyLength(lower) ==
    \E excluded \in EXCLUDED_PARTNERS :
        includes(lower, excluded) \/ includes(excluded, lower)

\* lines 624-630: a partial match discards unless the name is short
partiallyExcluded(lower) ==
    /\ ~(Len(lower) < SubstringExclusionMinLength)
    /\ \E excluded \in EXCLUDED_PARTNERS :
           includes(lower, excluded) \/ includes(excluded, lower)

\* the normalizer without the exact test against the exclusion set
normalizePartnerName_NoExactExclusion(name) ==
    LET lower == trim(toLowerCase(name))
        cleaned == trim(StripParentheticals(
                       StripSuffix(StripSuffix(name, LegalSuffixes), DealSuffixes)))
    IN  IF partiallyExcluded(lower) THEN Null
        ELSE IF lower \in DOMAIN PARTNER_NAME_MAP THEN <<PARTNER_NAME_MAP[lower]>>
        ELSE IF lower \in DOMAIN ObjectPrototype THEN ObjectPrototype[lower]
        ELSE IF SplitLength(cleaned) > MaxNameTokens THEN Null
        ELSE IF \E word \in descriptionWords : startsWith(lower, word) THEN Null
        ELSE IF cleaned = "" THEN Null
        ELSE <<cleaned>>

\* lines 615-656: null is <<>>, a returned string s is <<s>>
normalizePartnerName(name) ==
    LET lower == trim(toLowerCase(name))
        cleaned == trim(StripParentheticals(
                       StripSuffix(StripSuffix(name, LegalSuffixes), DealSuffixes)))
    IN  IF lower \in EXCLUDED_PARTNERS THEN Null
        ELSE IF partiallyExcluded(lower) THEN Null
        ELSE IF lower \in DOMAIN PARTNER_NAME_MAP THEN <<PARTNER_NAME_MAP[lower]>>
        \* line 633 reads the object through its prototype chain
        ELSE IF lower \in DOMAIN ObjectPrototype THEN ObjectPrototype[lower]
        ELSE IF SplitLength(cleaned) > MaxNameTokens THEN Null
        ELSE IF \E word \in descriptionWords : startsWith(lower, word) THEN Null
        ELSE IF cleaned = "" THEN Null
        ELSE <<cleaned>>

(***************************************************************************)
(* JavaScript numbers.  A value read from a record is an integer, NaN, or  *)
(* missing (undefined or null, which `!= null` does not tell apart); a     *)
(* quotient is kept as an exact reduced fraction.                          *)
(***************************************************************************)
RECURSIVE Gcd(_, _)
Gcd(a, b) == IF b = 0 THEN a ELSE Gcd(b, a % b)

Abs(n) == IF n < 0 THEN -n ELSE n

Fraction(n, d) ==
    LET g == Gcd(Abs(n), d)
    IN  [kind |-> "number", num |-> n \div g, den |-> d \div g]

Number(n) == Fraction(n, 1)

NaN == [kind |-> "NaN", num |-> 0, den |-> 1]

Nullish == [kind |-> "nullish", num |-> 0, den |-> 1]

isNaN(v) == v.kind = "NaN"

\* a + b
Plus(a, b) ==
    IF a.kind = "number" /\ b.kind = "number"
    THEN Fraction(a.num * b.den + b.num * a.den, a.den * b.den)
    ELSE NaN

\* total / count for a non-negative integer count: 0 / 0 is NaN
Divide(total, count) ==
    IF total.kind # "number" \/ count = 0 THEN NaN
    ELSE Fraction(total.num, total.den * count)

\* a > b; every comparison with NaN or a missing value is false
Greater(a, b) ==
    a.kind = "number" /\ b.kind = "number" /\ a.num * b.den > b.num * a.den

Less(a, b) == Greater(b, a)

(***************************************************************************)
(* Generic array helpers.                                                  *)
(***************************************************************************)
Range(seq) == {seq[i] : i \in 1..Len(seq)}

RECURSIVE SumSeq(_)
SumSeq(seq) == IF seq = <<>> THEN 0 ELSE Head(seq) + SumSeq(Tail(seq))

RECURSIVE Flatten(_)
Flatten(seqs) == IF seqs = <<>> THEN <<>> ELSE Head(seqs) \o Flatten(Tail(seqs))

\* array.filter(keep)
Filter(seq, keep(_)) ==
    LET kept == {i \in 1..Len(seq) : keep(seq[i])}
    IN  [p \in 1..Cardinality(kept) |->
            seq[CHOOSE i \in kept : Cardinality({j \in kept : j <= i}) = p]]

\* array.slice(0, n)
Slice(seq, n) == SubSeq(seq, 1, IF n < Len(seq) THEN n ELSE Len(seq))

\* array.sort((a, b) => before(a, b) ? -1 : before(b, a) ? 1 : 0), which is
\* stable: elements that compare equal keep their order
StableSort(seq, before(_, _)) ==
    LET n == Len(seq)
        pos == [i \in 1..n |->
                   1 + Cardinality({j \in 1..n :
                           \/ before(seq[j], seq[i])
                           \/ (~before(seq[i], seq[j]) /\ j < i)})]
    IN  [p \in 1..n |-> seq[CHOOSE i \in 1..n : pos[i] = p]]

Reverse(seq) == [i \in 1..Len(seq) |-> seq[Len(seq) + 1 - i]]

(***************************************************************************)
(* Quarter labels (src/unnamed/part_009 getQuarterInfo) and the default    *)
(* string order of Array.prototype.sort (UTF-16 code units).               *)
(***************************************************************************)
CharCode ==
    (" " :> 32) @@ ("0" :> 48) @@ ("1" :> 49) @@ ("2" :> 50) @@ ("3" :> 51)
    @@ ("4" :> 52) @@ ("5" :> 53) @@ ("6" :> 54) @@ ("7" :> 55) @@ ("8" :> 56)
    @@ ("9" :> 57) @@ ("Q" :> 81)

RECURSIVE StringLess(_, _)
StringLess(a, b) ==
    IF Len(b) = 0 THEN FALSE
    ELSE IF Len(a) = 0 THEN TRUE
    ELSE IF CharAt(a, 1) = CharAt(b, 1) THEN StringLess(Tail(a), Tail(b))
    ELSE CharCode[CharAt(a, 1)] < CharCode[CharAt(b, 1)]

QuarterLabel(calendarQuarter, year) ==
    "Q" \o ToString(calendarQuarter) \o " " \o ToString(year)

QuarterInfo(calendarQuarter, year) ==
    [calendarQuarter |-> calendarQuarter, calendarYear |-> year]

(***************************************************************************)
(* Company Directory (src/unnamed/part_000): the entries the model uses.   *)
(***************************************************************************)
COMPANIES ==
    << [ticker |-> "AAPL",  sector |-> "Technology", subCategory |-> "Enterprise Software"],
       [ticker |-> "MSFT",  sector |-> "Technology", subCategory |-> "Cloud Infrastructure"],
       [ticker |-> "GOOGL", sector |-> "Technology", subCategory |-> "Cloud Infrastructure"],
       [ticker |-> "AMZN",  sector |-> "Technology", subCategory |-> "E-commerce"],
       [ticker |-> "META",  sector |-> "Technology", subCategory |-> "Social Media"],
       [ticker |-> "NVDA",  sector |-> "Technology", subCategory |-> "Semiconductors"],
       [ticker |-> "AMD",   sector |-> "Technology", subCategory |-> "Semiconductors"],
       [ticker |-> "INTC",  sector |-> "Technology", subCategory |-> "Semiconductors"],
       [ticker |-> "QCOM",  sector |-> "Technology", subCategory |-> "Semiconductors"],
       [ticker |-> "MRNA",  sector |-> "Healthcare", subCategory |-> "Biotech"] >>

\* COMPANIES.find(company => company.ticker === ticker), undefined as Null
getCompanyByTicker(ticker) ==
    LET hit == {i \in 1..Len(COMPANIES) : COMPANIES[i].ticker = ticker}
    IN  IF hit = {} THEN Null
        ELSE <<COMPANIES[CHOOSE i \in hit : \A j \in hit : i <= j]>>

(***************************************************************************)
(* Records on disk.  dataDir maps a ticker to the content of               *)
(* data/earnings/<ticker>.json, or to NoFile.                              *)
(***************************************************************************)
NoFile == [kind |-> "none"]

UndefinedInsights == [kind |-> "undefined"]

Undefined == "undefined"

UndefinedArray == [kind |-> "undefined", items |-> <<>>]

Array(items) == [kind |-> "array", items |-> items]

\* readdirSync lists the files in name order
DirOrder ==
    <<"AAPL", "AMD", "AMZN", "GOOGL", "INTC", "META", "MRNA", "MSFT", "NVDA", "QCOM">>

VARIABLES dataDir, call, result

vars == <<dataDir, call, result>>

\* the Map built by loadAllEarningsData: one entry per file, in listing order
loadAllEarningsData(dir) ==
    LET present == Filter(DirOrder, LAMBDA t : dir[t].kind = "file")
    IN  [i \in 1..Len(present) |-> [ticker |-> present[i], data |-> dir[present[i]]]]

\* insertion-ordered set of the elements of seq (a JavaScript Set or Map key list)
Distinct(seq) ==
    LET first == {i \in 1..Len(seq) : \A j \in 1..(i - 1) : seq[j] # seq[i]}
    IN  [p \in 1..Cardinality(first) |->
            seq[CHOOSE i \in first : Cardinality({j \in first : j <= i}) = p]]

\* reports.find(r => r.quarter === quarter): index of the first match, else 0
FindReport(reports, quarter) ==
    LET hit == {i \in 1..Len(reports) : reports[i].quarter = quarter}
    IN  IF hit = {} THEN 0 ELSE CHOOSE i \in hit : \A j \in hit : i <= j

(***************************************************************************)
(* computeMacroAnalysis (src/lib/macro.ts 693-1019).                       *)
(***************************************************************************)
NoTargetQuarter == <<>>

\* the period resolution with the sort left ascending
analysisQuarter_Ascending(earningsData, targetQuarter) ==
    IF targetQuarter # <<>> /\ targetQuarter[1] # "" THEN targetQuarter[1]
    ELSE LET allQuarters ==
                 Distinct(Flatten([i \in 1..Len(earningsData) |->
                     [j \in 1..Len(earningsData[i].data.reports) |->
                         earningsData[i].data.reports[j].quarter]]))
             sortedQuarters == StableSort(allQuarters, StringLess)
         IN  IF sortedQuarters = <<>> THEN "Unknown" ELSE sortedQuarters[1]

\* lines 697-708
analysisQuarter(earningsData, targetQuarter) ==
    IF targetQuarter # <<>> /\ targetQuarter[1] # "" THEN targetQuarter[1]
    ELSE LET allQuarters ==
                 Distinct(Flatten([i \in 1..Len(earningsData) |->
                     [j \in 1..Len(earningsData[i].data.reports) |->
                         earningsData[i].data.reports[j].quarter]]))
             sortedQuarters == Reverse(StableSort(allQuarters, StringLess))
         IN  IF sortedQuarters = <<>> THEN "Unknown" ELSE sortedQuarters[1]

\* the selection with a company's most recent record carried forward when
\* it has none for the quarter
quarterReports_CarryForward(earningsData, quarter) ==
    LET At(e) == IF FindReport(e.data.reports, quarter) # 0
                 THEN FindReport(e.data.reports, quarter) ELSE 1
        selected ==
            Filter(earningsData, LAMBDA e :
                Len(e.data.reports) > 0 /\ e.data.reports[At(e)].insights.kind = "object")
    IN  [i \in 1..Len(selected) |->
            [ticker  |-> selected[i].ticker,
             company |-> selected[i].data.company,
             report  |-> selected[i].data.reports[At(selected[i])]]]

\* lines 710-722
quarterReports(earningsData, quarter) ==
    LET selected ==
            Filter(earningsData, LAMBDA e :
                LET at == FindReport(e.data.reports, quarter)
                IN  at # 0 /\ e.data.reports[at].insights.kind = "object")
    IN  [i \in 1..Len(selected) |->
            [ticker  |-> selected[i].ticker,
             company |-> selected[i].data.company,
             report  |-> selected[i].data.reports[
                             FindReport(selected[i].data.reports, quarter)]]]

InsightsOf(qr) == [i \in 1..Len(qr) |-> qr[i].report.insights]

RECURSIVE SumNumbers(_)
SumNumbers(seq) ==
    IF seq = <<>> THEN Number(0) ELSE Plus(Head(seq), SumNumbers(Tail(seq)))

\* lines 743-747: the capexGrowth values that enter the global average
CountedCapex(qr) ==
    Filter([i \in 1..Len(qr) |-> qr[i].report.insights.capexGrowth],
           LAMBDA v : v.kind # "nullish" /\ ~isNaN(v))

\* the average without the guard on the count
averageCapexGrowth_Unguarded(qr) ==
    Divide(SumNumbers(CountedCapex(qr)), Len(CountedCapex(qr)))

\* line 1005
averageCapexGrowth(qr) ==
    LET counted == CountedCapex(qr)
    IN  IF Len(counted) > 0 THEN Divide(SumNumbers(counted), Len(counted))
        ELSE Number(0)

\* lines 749-763, 783-806: one counter of a switch or frequency table
CountWhere(qr, field, value) ==
    Len(Filter(InsightsOf(qr), LAMBDA insights : insights[field] = value))

\* lines 765-768
aiInvestmentCount(qr) ==
    Len(Filter(InsightsOf(qr), LAMBDA insights : insights.aiInvestmentMentioned))

\* every value that is not a key counted as "unknown"
supplyChainCounts_OthersAsUnknown(qr) ==
    [k \in {"tight", "easing", "normal", "unknown"} |->
        IF k = "unknown"
        THEN Len(qr) - CountWhere(qr, "supplyChainStatus", "tight")
                     - CountWhere(qr, "supplyChainStatus", "easing")
                     - CountWhere(qr, "supplyChainStatus", "normal")
        ELSE CountWhere(qr, "supplyChainStatus", k)]

supplyChainCounts(qr) ==
    [k \in {"tight", "easing", "normal", "unknown"} |->
        CountWhere(qr, "supplyChainStatus", k)]

headcountCounts(qr) ==
    [k \in {"expanding", "stable", "freezing", "reducing"} |->
        CountWhere(qr, "headcountTrend", k)]

\* the "unknown" member left uncounted
pricingPowerCounts_UnknownDropped(qr) ==
    [k \in {"strong", "moderate", "weak", "unknown"} |->
        IF k = "unknown" THEN 0 ELSE CountWhere(qr, "pricingPower", k)]

pricingPowerCounts(qr) ==
    [k \in {"strong", "moderate", "weak", "unknown"} |->
        CountWhere(qr, "pricingPower", k)]

\* lines 808-815, 904
SentimentScore(insights) ==
    IF insights.overallSentiment = "bullish" THEN 1
    ELSE IF insights.overallSentiment = "bearish" THEN -1
    ELSE 0

\* lines 818-822
avgSentiment(qr) ==
    Divide(Number(SumSeq([i \in 1..Len(qr) |-> SentimentScore(qr[i].report.insights)])),
           Len(qr))

\* the classification with "neutral" tested as average >= -0.3
overallSentiment_NeutralByComparison(qr) ==
    IF Greater(avgSentiment(qr), Fraction(3, 10)) THEN "bullish"
    ELSE IF ~isNaN(avgSentiment(qr)) /\ ~Less(avgSentiment(qr), Fraction(-3, 10))
    THEN "neutral"
    ELSE "bearish"

\* the classification with both thresholds taken inclusively
overallSentiment_Inclusive(qr) ==
    IF ~Less(avgSentiment(qr), Fraction(3, 10)) /\ ~isNaN(avgSentiment(qr)) THEN "bullish"
    ELSE IF ~Greater(avgSentiment(qr), Fraction(-3, 10)) /\ ~isNaN(avgSentiment(qr))
    THEN "bearish"
    ELSE "neutral"

overallSentiment(qr) ==
    IF Greater(avgSentiment(qr), Fraction(3, 10)) THEN "bullish"
    ELSE IF Less(avgSentiment(qr), Fraction(-3, 10)) THEN "bearish"
    ELSE "neutral"

\* lines 734, 740, 772-774 (and 907-911): the mentions that survive
\* normalizePartnerName, in the order the loops reach them
normalizedMentions(reports) ==
    LET raw == Flatten([i \in 1..Len(reports) |->
                   LET partnerships == reports[i].report.insights.partnerships
                       items == IF partnerships.kind = "array"
                                THEN partnerships.items ELSE <<>>
                   IN  [k \in 1..Len(items) |->
                           [ticker            |-> reports[i].ticker,
                            normalizedPartner |-> normalizePartnerName(items[k])]]])
    IN  Filter(raw, LAMBDA m : m.normalizedPartner # Null)

\* the tickers whose mentions normalize to partner, one per mention
mentioningTickers(mentions, partner) ==
    LET hits == Filter(mentions, LAMBDA m : m.normalizedPartner[1] = partner)
    IN  [i \in 1..Len(hits) |-> hits[i].ticker]

\* the keys of a Map filled mention by mention, in order of first insertion
mentionedPartners(mentions) ==
    Distinct([i \in 1..Len(mentions) |-> mentions[i].normalizedPartner[1]])

\* the value of a key as an array of tickers, pushed to on every mention
connectedCompanies_EveryMention(mentions, partner) ==
    mentioningTickers(mentions, partner)

\* lines 775-778: the value of a key is a Set of tickers, kept in insertion order
connectedCompanies(mentions, partner) ==
    Distinct(mentioningTickers(mentions, partner))

\* lines 770-781, given the mentions the loops reach
partnershipMapOf(mentions) ==
    LET keys == mentionedPartners(mentions)
    IN  [k \in 1..Len(keys) |->
            [partner            |-> keys[k],
             connectedCompanies |-> connectedCompanies(mentions, keys[k])]]

partnershipMap(qr) == partnershipMapOf(normalizedMentions(qr))

\* lines 826-832, given the filled map
sortedPartnerships(map) ==
    StableSort([i \in 1..Len(map) |->
                   [partner            |-> map[i].partner,
                    mentions           |-> Len(map[i].connectedCompanies),
                    connectedCompanies |-> map[i].connectedCompanies]],
               LAMBDA a, b : a.mentions > b.mentions)

allPartnerships(qr) == sortedPartnerships(partnershipMap(qr))

CrossCompanyMentions == 2

NetworkFallbackSize == 15

\* the network without the top-15 fallback
crossCompanyOrTop_NoFallback(all) ==
    Filter(all, LAMBDA p : p.mentions >= CrossCompanyMentions)

\* lines 836-839, given the sorted entries
crossCompanyOrTop(all) ==
    LET crossCompanyPartnerships ==
            Filter(all, LAMBDA p : p.mentions >= CrossCompanyMentions)
    IN  IF Len(crossCompanyPartnerships) > 0
        THEN crossCompanyPartnerships
        ELSE Slice(all, NetworkFallbackSize)

partnershipNetwork(qr) == crossCompanyOrTop(allPartnerships(qr))

\* line 845
sectorKey(company) == company.sector \o ":" \o company.subCategory

\* sectorKey.split(":")[n - 1] for n = 1 or 2 (line 855)
SplitColon(s, n) ==
    LET first  == IndexOfChar(s, ":", 1)
        second == IF first = 0 THEN 0 ELSE IndexOfChar(s, ":", first + 1)
    IN  IF n = 1 THEN SubSeq(s, 1, IF first = 0 THEN Len(s) ELSE first - 1)
        ELSE SubSeq(s, first + 1, IF second = 0 THEN Len(s) ELSE second - 1)

\* the buckets keyed by sector alone, labelled with their first company's key
sectorMap_BySector(qr) ==
    LET keys == Distinct([i \in 1..Len(qr) |-> qr[i].company.sector])
    IN  [k \in 1..Len(keys) |->
            LET sectorReports == Filter(qr, LAMBDA r : r.company.sector = keys[k])
            IN  [sectorKey     |-> sectorKey(sectorReports[1].company),
                 sectorReports |-> sectorReports]]

\* lines 842-850: Map from sector key to the bucket's reports, insertion order
sectorMap(qr) ==
    LET keys == Distinct([i \in 1..Len(qr) |-> sectorKey(qr[i].company)])
    IN  [k \in 1..Len(keys) |->
            [sectorKey     |-> keys[k],
             sectorReports |-> Filter(qr, LAMBDA r : sectorKey(r.company) = keys[k])]]

\* lines 865, 907-915, given the mentions the loop reaches: a Map keyed by
\* normalized name, in order of first insertion; the value of a key is a
\* number, raised by one on every mention
mentionCounts(mentions) ==
    LET keys == mentionedPartners(mentions)
    IN  [k \in 1..Len(keys) |->
            [partner  |-> keys[k],
             mentions |-> Len(mentioningTickers(mentions, keys[k]))]]

sectorPartnershipMap(sectorReports) == mentionCounts(normalizedMentions(sectorReports))

SectorTopSize == 5

SectorFallbackSize == 3

\* the two tiers without their slices
qualifiedOrTop_Unsliced(allPartners) ==
    LET qualified == Filter(allPartners, LAMBDA p : p.mentions >= CrossCompanyMentions)
    IN  IF Len(qualified) > 0 THEN qualified ELSE allPartners

\* lines 923-925, given the sorted entries
qualifiedOrTop(allPartners) ==
    LET qualified == Filter(allPartners, LAMBDA p : p.mentions >= CrossCompanyMentions)
    IN  IF Len(qualified) > 0
        THEN Slice(qualified, SectorTopSize)
        ELSE Slice(allPartners, SectorFallbackSize)

\* lines 919-925
topPartners(sectorReports) ==
    qualifiedOrTop(StableSort(sectorPartnershipMap(sectorReports),
                              LAMBDA a, b : a.mentions > b.mentions))

\* lines 872-875, 932: the sector average tests only `!= null`
sectorAverageCapexGrowth(sectorReports) ==
    LET counted == Filter([i \in 1..Len(sectorReports) |->
                              sectorReports[i].report.insights.capexGrowth],
                          LAMBDA v : v.kind # "nullish")
    IN  IF Len(counted) > 0 THEN Divide(SumNumbers(counted), Len(counted))
        ELSE Number(0)

\* lines 854-938: one SectorAnalysis
SectorAnalysis(bucket) ==
    LET sectorReports == bucket.sectorReports
    IN  [sector       |-> SplitColon(bucket.sectorKey, 1),
         subCategory  |-> SplitColon(bucket.sectorKey, 2),
         companies    |-> [i \in 1..Len(sectorReports) |-> sectorReports[i].ticker],
         averageRevenueGrowth |-> Number(0),
         averageCapexGrowth   |-> sectorAverageCapexGrowth(sectorReports),
         guidanceSentiment |->
             [raised      |-> CountWhere(sectorReports, "guidanceDirection", "raised"),
              maintained  |-> CountWhere(sectorReports, "guidanceDirection", "maintained"),
              lowered     |-> CountWhere(sectorReports, "guidanceDirection", "lowered"),
              notProvided |-> CountWhere(sectorReports, "guidanceDirection", "not_provided")],
         supplyChainStatus |-> supplyChainCounts(sectorReports),
         aiInvestmentPercentage |->
             LET share == Divide(Number(aiInvestmentCount(sectorReports)), Len(sectorReports))
             IN  IF share.kind = "number" THEN Fraction(share.num * 100, share.den) ELSE NaN,
         averageSentiment |-> avgSentiment(sectorReports),
         topPartners  |-> topPartners(sectorReports)]

sectorAnalyses(qr) ==
    LET buckets == sectorMap(qr)
    IN  [k \in 1..Len(buckets) |-> SectorAnalysis(buckets[k])]

TickersWhere(qr, keep(_)) ==
    LET kept == Filter(qr, keep) IN [i \in 1..Len(kept) |-> kept[i].ticker]

HighCapexThreshold == 20

LowCapexThreshold == -10

\* the divergences with the capex thresholds taken inclusively
divergences_Inclusive(qr) ==
    LET raisers  == TickersWhere(qr, LAMBDA r : r.report.insights.guidanceDirection = "raised")
        lowerers == TickersWhere(qr, LAMBDA r : r.report.insights.guidanceDirection = "lowered")
        highCapex == TickersWhere(qr, LAMBDA r :
                        /\ r.report.insights.capexGrowth.kind = "number"
                        /\ ~Less(r.report.insights.capexGrowth, Number(HighCapexThreshold)))
        lowCapex  == TickersWhere(qr, LAMBDA r :
                        /\ r.report.insights.capexGrowth.kind = "number"
                        /\ ~Greater(r.report.insights.capexGrowth, Number(LowCapexThreshold)))
    IN  (IF Len(raisers) > 0 \/ Len(lowerers) > 0
         THEN <<[theme |-> "Guidance Direction", winners |-> raisers, losers |-> lowerers]>>
         ELSE <<>>)
        \o
        (IF Len(highCapex) > 0 \/ Len(lowCapex) > 0
         THEN <<[theme |-> "Capital Expenditure", winners |-> highCapex, losers |-> lowCapex]>>
         ELSE <<>>)

\* lines 941-978
divergences(qr) ==
    LET raisers  == TickersWhere(qr, LAMBDA r : r.report.insights.guidanceDirection = "raised")
        lowerers == TickersWhere(qr, LAMBDA r : r.report.insights.guidanceDirection = "lowered")
        highCapex == TickersWhere(qr, LAMBDA r :
                        Greater(r.report.insights.capexGrowth, Number(HighCapexThreshold)))
        lowCapex  == TickersWhere(qr, LAMBDA r :
                        Less(r.report.insights.capexGrowth, Number(LowCapexThreshold)))
    IN  (IF /\ (CountWhere(qr, "guidanceDirection", "raised") > 0
                \/ CountWhere(qr, "guidanceDirection", "lowered") > 0)
            /\ (Len(raisers) > 0 \/ Len(lowerers) > 0)
         THEN <<[theme |-> "Guidance Direction", winners |-> raisers, losers |-> lowerers]>>
         ELSE <<>>)
        \o
        (IF Len(highCapex) > 0 \/ Len(lowCapex) > 0
         THEN <<[theme |-> "Capital Expenditure", winners |-> highCapex, losers |-> lowCapex]>>
         ELSE <<>>)

\* lines 980-998
\* the themes with "Optimistic Outlook" decided by raised > lowered
topThemes_NoRatio(qr) ==
    LET guidanceRaised  == CountWhere(qr, "guidanceDirection", "raised")
        guidanceLowered == CountWhere(qr, "guidanceDirection", "lowered")
    IN  (IF 2 * aiInvestmentCount(qr) > Len(qr)
         THEN <<"AI Infrastructure Investment">> ELSE <<>>)
        \o
        (IF supplyChainCounts(qr).easing > supplyChainCounts(qr).tight
         THEN <<"Supply Chain Easing">>
         ELSE IF supplyChainCounts(qr).tight > supplyChainCounts(qr).easing
         THEN <<"Supply Chain Constraints">> ELSE <<>>)
        \o
        (IF guidanceRaised > guidanceLowered THEN <<"Optimistic Outlook">>
         ELSE IF guidanceLowered > guidanceRaised THEN <<"Cautious Guidance">> ELSE <<>>)
        \o
        (IF headcountCounts(qr).reducing > headcountCounts(qr).expanding
         THEN <<"Cost Cutting Measures">> ELSE <<>>)

topThemes(qr) ==
    LET guidanceRaised  == CountWhere(qr, "guidanceDirection", "raised")
        guidanceLowered == CountWhere(qr, "guidanceDirection", "lowered")
    IN  (IF 2 * aiInvestmentCount(qr) > Len(qr)
         THEN <<"AI Infrastructure Investment">> ELSE <<>>)
        \o
        (IF supplyChainCounts(qr).easing > supplyChainCounts(qr).tight
         THEN <<"Supply Chain Easing">>
         ELSE IF supplyChainCounts(qr).tight > supplyChainCounts(qr).easing
         THEN <<"Supply Chain Constraints">> ELSE <<>>)
        \o
        (IF guidanceRaised > guidanceLowered * 2 THEN <<"Optimistic Outlook">>
         ELSE IF guidanceLowered > guidanceRaised THEN <<"Cautious Guidance">> ELSE <<>>)
        \o
        (IF headcountCounts(qr).reducing > headcountCounts(qr).expanding
         THEN <<"Cost Cutting Measures">> ELSE <<>>)

\* lines 1000-1018, given the period and the selected reports; generatedAt
\* (the wall clock) is left out
MacroAnalysis(period, qr) ==
    [kind      |-> "return",
     period    |-> period,
     companies |-> [i \in 1..Len(qr) |-> qr[i].ticker],
     aggregateInsights |->
         [averageCapexGrowth        |-> averageCapexGrowth(qr),
          companiesRaisingGuidance  |-> CountWhere(qr, "guidanceDirection", "raised"),
          companiesLoweringGuidance |-> CountWhere(qr, "guidanceDirection", "lowered"),
          aiInvestmentCount         |-> aiInvestmentCount(qr),
          overallMarketSentiment    |-> overallSentiment(qr),
          partnershipNetwork        |-> partnershipNetwork(qr),
          supplyChainSentiment      |-> supplyChainCounts(qr),
          headcountTrends           |-> headcountCounts(qr),
          pricingPowerDistribution  |-> pricingPowerCounts(qr)],
     sectorAnalyses |-> sectorAnalyses(qr),
     divergences    |-> divergences(qr),
     topThemes      |-> topThemes(qr)]

\* lines 693-1019
computeMacroAnalysis(dir, targetQuarter) ==
    LET earningsData == loadAllEarningsData(dir)
        period == analysisQuarter(earningsData, targetQuarter)
    IN  MacroAnalysis(period, quarterReports(earningsData, period))

(***************************************************************************)
(* getSectorComparison (src/lib/macro.ts 1024-1123).                       *)
(***************************************************************************)
\* the filter of line 1090 without its isNaN test
calcAvg_KeepsNaN(companies, field) ==
    LET values == Filter([i \in 1..Len(companies) |-> companies[i].insights[field]],
                         LAMBDA v : v.kind # "nullish")
    IN  IF Len(values) > 0 THEN Divide(SumNumbers(values), Len(values)) ELSE Nullish

\* lines 1087-1092; the values are read from insights that exist
calcAvg(companies, field) ==
    LET values == Filter([i \in 1..Len(companies) |-> companies[i].insights[field]],
                         LAMBDA v : v.kind # "nullish" /\ ~isNaN(v))
    IN  IF Len(values) > 0 THEN Divide(SumNumbers(values), Len(values)) ELSE Nullish

\* insights.revenue || 0
RevenueOrZero(insights) ==
    IF insights.revenue.kind = "number" THEN insights.revenue ELSE Number(0)

\* the index of findIndex taken as the rank
RankOf_ZeroBased(companies, ticker) ==
    LET hit == {i \in 1..Len(companies) : companies[i].ticker = ticker}
    IN  IF hit = {} THEN -1 ELSE (CHOOSE i \in hit : \A j \in hit : i <= j) - 1

\* companies.findIndex(c => c.ticker === ticker) + 1
RankOf(companies, ticker) ==
    LET hit == {i \in 1..Len(companies) : companies[i].ticker = ticker}
    IN  IF hit = {} THEN 0 ELSE CHOOSE i \in hit : \A j \in hit : i <= j

ReturnNull == [kind |-> "null"]

Throw(error) == [kind |-> "throw", error |-> error]

\* the sub-category test without the sector test
inSubCategoryOf_AnySector(otherCompany, company) ==
    otherCompany.subCategory = company.subCategory

\* lines 1074-1077
inSubCategoryOf(otherCompany, company) ==
    /\ otherCompany.sector = company.sector
    /\ otherCompany.subCategory = company.subCategory

\* the most recent quarter of the whole record set in place of the ticker's
comparisonQuarter_Global(dir, ticker, targetQuarter) ==
    IF targetQuarter # <<>> /\ targetQuarter[1] # "" THEN targetQuarter
    ELSE IF Len(dir[ticker].reports) > 0
    THEN <<analysisQuarter(loadAllEarningsData(dir), NoTargetQuarter)>>
    ELSE <<>>

\* lines 1047-1051: analysisQuarter, undefined as <<>>
comparisonQuarter(dir, ticker, targetQuarter) ==
    IF targetQuarter # <<>> /\ targetQuarter[1] # "" THEN targetQuarter
    ELSE IF Len(dir[ticker].reports) > 0 THEN <<dir[ticker].reports[1].quarter>>
    ELSE <<>>

getSectorComparison(ticker, dir, targetQuarter) ==
    LET found == getCompanyByTicker(ticker)
        company == found[1]
        earningsData == loadAllEarningsData(dir)
        companyData == dir[ticker]
        quarter == comparisonQuarter(dir, ticker, targetQuarter)
        HasReport(e) == quarter # <<>> /\ FindReport(e.data.reports, quarter[1]) # 0
        Peer(e) == [ticker   |-> e.ticker,
                    company  |-> e.data.company,
                    insights |-> e.data.reports[FindReport(e.data.reports, quarter[1])].insights]
        inSector == Filter(earningsData, LAMBDA e :
                        HasReport(e) /\ e.data.company.sector = company.sector)
        inSubCategory == Filter(earningsData, LAMBDA e :
                        HasReport(e) /\ inSubCategoryOf(e.data.company, company))
        sectorCompanies == [i \in 1..Len(inSector) |-> Peer(inSector[i])]
        subCategoryCompanies == [i \in 1..Len(inSubCategory) |-> Peer(inSubCategory[i])]
        ByRevenue(a, b) == Greater(RevenueOrZero(a.insights), RevenueOrZero(b.insights))
        sortedSector == StableSort(sectorCompanies, ByRevenue)
        sortedSubCategory == StableSort(subCategoryCompanies, ByRevenue)
    IN  IF found = Null THEN ReturnNull
        ELSE IF ticker \notin DOMAIN dir \/ companyData.kind # "file" THEN ReturnNull
        ELSE IF quarter = <<>> \/ FindReport(companyData.reports, quarter[1]) = 0
        THEN ReturnNull
        \* c.insights[field] of line 1089 for a peer without insights
        ELSE IF \E i \in 1..Len(sectorCompanies) :
                    sectorCompanies[i].insights.kind # "object"
        THEN Throw("TypeError")
        ELSE [kind    |-> "return",
              company |-> company,
              companyMetrics |->
                  companyData.reports[FindReport(companyData.reports, quarter[1])].insights,
              sectorAverages |->
                  [capexGrowth |-> calcAvg(sectorCompanies, "capexGrowth"),
                   revenue     |-> calcAvg(sectorCompanies, "revenue")],
              subCategoryAverages |->
                  [capexGrowth |-> calcAvg(subCategoryCompanies, "capexGrowth"),
                   revenue     |-> calcAvg(subCategoryCompanies, "revenue")],
              ranking |->
                  [inSector           |-> RankOf(sortedSector, ticker),
                   totalInSector      |-> Len(sectorCompanies),
                   inSubCategory      |-> RankOf(sortedSubCategory, ticker),
                   totalInSubCategory |-> Len(subCategoryCompanies)]]

(***************************************************************************)
(* Record sets the analysis is run on.                                     *)
(***************************************************************************)
\* an insights object with every optional field missing
BareInsights ==
    [kind                  |-> "object",
     capexGrowth           |-> Nullish,
     revenue               |-> Nullish,
     guidanceDirection     |-> Undefined,
     aiInvestmentMentioned |-> FALSE,
     partnerships          |-> UndefinedArray,
     supplyChainStatus     |-> Undefined,
     headcountTrend        |-> Undefined,
     pricingPower          |-> Undefined,
     overallSentiment      |-> Undefined]

\* an insights object that moves every aggregate
RichInsights ==
    [BareInsights EXCEPT
        !.capexGrowth = Number(25), !.revenue = Number(100),
        !.guidanceDirection = "raised", !.aiInvestmentMentioned = TRUE,
        !.partnerships = Array(<<"MSFT">>), !.supplyChainStatus = "easing",
        !.headcountTrend = "reducing", !.pricingPower = "strong",
        !.overallSentiment = "bullish"]

Report(info, insights) ==
    [quarter     |-> QuarterLabel(info.calendarQuarter, info.calendarYear),
     quarterInfo |-> info,
     insights    |-> insights]

File(ticker, reports) ==
    [kind |-> "file", company |-> getCompanyByTicker(ticker)[1], reports |-> reports]

\* a later than b
Later(a, b) ==
    \/ a.calendarYear > b.calendarYear
    \/ (a.calendarYear = b.calendarYear /\ a.calendarQuarter > b.calendarQuarter)

MaxReports == 2

\* report lists as the batch script saves them (part_009 line 328): most
\* recent first, one report per quarter
ReportLists(infos, payloads) ==
    UNION {{reports \in [1..n -> {Report(i, p) : i \in infos, p \in payloads}] :
                \A j \in 1..(n - 1) :
                    Later(reports[j].quarterInfo, reports[j + 1].quarterInfo)}
           : n \in 0..MaxReports}

\* directories in which each of the tickers has no file or one of the lists
DataDirs(tickers, lists) ==
    {[t \in Range(DirOrder) |->
         IF t \in tickers /\ choice[t] # <<NoFile>> THEN File(t, choice[t]) ELSE NoFile]
     : choice \in [tickers -> lists \cup {<<NoFile>>}]}

QuarterInfos == {QuarterInfo(4, 2023), QuarterInfo(1, 2024), QuarterInfo(2, 2024)}

TargetQuarters ==
    {NoTargetQuarter}
    \cup {<<QuarterLabel(i.calendarQuarter, i.calendarYear)>> : i \in QuarterInfos}

\* four tickers of the directory and one that is not in it
ComparedTickers == {"AMD", "MRNA", "MSFT", "NVDA", "XYZ"}

NoCall == [op |-> "none", ticker |-> "", targetQuarter |-> NoTargetQuarter]

NoResult == [kind |-> "none"]

(***************************************************************************)
(* The two entry points, called on the directory as it stands.  The core   *)
(* is synchronous and single-threaded: a call is made when no call is      *)
(* pending, and its caller consumes the result before the next one.        *)
(***************************************************************************)
ComputeMacroAnalysis ==
    \E targetQuarter \in TargetQuarters :
        /\ call = NoCall
        /\ call' = [op |-> "computeMacroAnalysis", ticker |-> "",
                    targetQuarter |-> targetQuarter]
        /\ result' = computeMacroAnalysis(dataDir, targetQuarter)
        /\ UNCHANGED dataDir

GetSectorComparison ==
    \E ticker \in ComparedTickers, targetQuarter \in TargetQuarters :
        /\ call = NoCall
        /\ call' = [op |-> "getSectorComparison", ticker |-> ticker,
                    targetQuarter |-> targetQuarter]
        /\ result' = getSectorComparison(ticker, dataDir, targetQuarter)
        /\ UNCHANGED dataDir

\* the caller is done with the result (regenerate-macro.ts main, the company page)
Finish ==
    /\ call # NoCall
    /\ call' = NoCall
    /\ result' = NoResult
    /\ UNCHANGED dataDir

\* the partnerships entries of every record on file
NamesOnFile(dir) ==
    UNION {UNION {Range(dir[t].reports[j].insights.partnerships.items)
                  : j \in {i \in 1..Len(dir[t].reports) :
                              dir[t].reports[i].insights.kind = "object"}}
           : t \in {u \in DOMAIN dir : dir[u].kind = "file"}}

\* lines 772-774 and 908-910: one pass of a partnerships loop, on a name on
\* file or on a ticker
NormalizePartnerName ==
    \E name \in NamesOnFile(dataDir) \cup ComparedTickers :
        /\ call = NoCall
        /\ call' = [op |-> "normalizePartnerName", ticker |-> "",
                    targetQuarter |-> NoTargetQuarter, name |-> name]
        /\ result' = [kind |-> "return", normalizedPartner |-> normalizePartnerName(name)]
        /\ UNCHANGED dataDir

Next ==
    ComputeMacroAnalysis \/ GetSectorComparison \/ NormalizePartnerName \/ Finish

\* quarter selection: two companies, any two of three quarters, a record may
\* lack its insights
Init ==
    /\ dataDir \in DataDirs({"AMD", "NVDA"},
                            ReportLists(QuarterInfos,
                                        {BareInsights, RichInsights, UndefinedInsights}))
    /\ call = NoCall
    /\ result = NoResult

Spec == Init /\ [][Next]_vars

CapexInsights(capexGrowth) == [BareInsights EXCEPT !.capexGrowth = capexGrowth]

GuidanceInsights(direction) == [BareInsights EXCEPT !.guidanceDirection = direction]

AggregatePayloads ==
    {CapexInsights(v) : v \in {Nullish, NaN} \cup {Number(n) : n \in {-15, -10, 5, 20, 25}}}
    \cup {GuidanceInsights(d) : d \in {"raised", "lowered", "maintained", "not_provided"}}
    \cup {[BareInsights EXCEPT !.capexGrowth = Number(25), !.guidanceDirection = "lowered"],
          UndefinedInsights}

\* scalar aggregates and divergences: three companies, one quarter, the
\* capexGrowth and guidanceDirection of each record vary
InitAggregates ==
    /\ dataDir \in DataDirs({"AMD", "MSFT", "NVDA"},
                            ReportLists({QuarterInfo(1, 2024)}, AggregatePayloads))
    /\ call = NoCall
    /\ result = NoResult

SpecAggregates == InitAggregates /\ [][Next]_vars

PartnerInsights(items) == [BareInsights EXCEPT !.partnerships = Array(items)]

\* one more distinct partner than the network fallback keeps
ManyPartners == [i \in 1..(NetworkFallbackSize + 1) |-> "Vendor " \o ToString(i)]

PartnerPayloads ==
    {PartnerInsights(items) :
        items \in {<<>>,
                   <<"MSFT", "Microsoft Corp">>,
                   <<"Acme Robotics Inc.", "Acme Robotics Inc.">>,
                   <<"FDA", "microsoft corporation">>,
                   <<"Acme Robotics LLC">>,
                   <<"Acme Robotics", "MSFT">>,
                   ManyPartners}}
    \cup {BareInsights, UndefinedInsights}

\* partnerships: three companies in two sector buckets, one quarter, the
\* partnerships list of each record varies
InitPartnerships ==
    /\ dataDir \in DataDirs({"AMD", "MSFT", "NVDA"},
                            ReportLists({QuarterInfo(1, 2024)}, PartnerPayloads))
    /\ call = NoCall
    /\ result = NoResult

SpecPartnerships == InitPartnerships /\ [][Next]_vars

UpperCaseOf ==
    [c \in {CharAt(LowerCaseLetters, i) : i \in 1..Len(LowerCaseLetters)} |->
        CharAt(UpperCaseLetters,
               CHOOSE i \in 1..Len(LowerCaseLetters) : CharAt(LowerCaseLetters, i) = c)]

RECURSIVE toUpperCase(_)
toUpperCase(s) ==
    IF Len(s) = 0 THEN ""
    ELSE IF Len(s) = 1 THEN (IF s \in DOMAIN UpperCaseOf THEN UpperCaseOf[s] ELSE s)
    ELSE LET half == Len(s) \div 2
             halves == <<SubSeq(s, 1, half), SubSeq(s, half + 1, Len(s))>>
             raised == [h \in 1..2 |-> toUpperCase(halves[h])]
         IN  raised[1] \o raised[2]

\* a table entry as a filing may spell it: as is, in capitals, and
\* capitalized between white space
Spellings(entry) ==
    {entry,
     toUpperCase(entry),
     "  " \o toUpperCase(SubSeq(entry, 1, 1)) \o SubSeq(entry, 2, Len(entry)) \o "\t "}

\* names that reach the heuristic cleanup, or stop just before it
UnlistedNames ==
    {"", "  ", "(x)", "Acme Robotics", "Acme Robotics Inc.", "Acme Robotics (x) Inc.",
     "Acme Holdings LLC partnership", "Globex\tCorp", "Globex Corp ",
     "a b c d", "a b c d e", "a  b c d", "A B C D E Inc", "A B C D (x) Inc",
     "one two three four five (x)", "new relic", "New Relic", "Pending Approval Corp",
     "Apollo Tyres", "Blackstone Infrastructure Partners",
     "constructor", " Constructor ", "__proto__",
     "Health", "institutes of allergy and infectious", "ACME ROBOTICS",
     "Acme Inc. (x)", "Acme Holdings Ltd Inc", "(old) new venture",
     "Newmont", "Acme (unclosed Inc"}

\* names in title case, and a description in place of a name
TitleCaseNames == {"Microsoft Corp", "Advanced Micro Devices", "continued AI model collaborations"}

PartnerNames ==
    UNION {Spellings(entry) : entry \in DOMAIN PARTNER_NAME_MAP \cup EXCLUDED_PARTNERS}
    \cup UnlistedNames \cup TitleCaseNames

\* the normalizer: one company with one record that names one partner
InitNormalizer ==
    /\ dataDir \in DataDirs({"NVDA"},
                            {<<Report(QuarterInfo(1, 2024), PartnerInsights(<<name>>))>>
                             : name \in PartnerNames})
    /\ call = NoCall
    /\ result = NoResult

SpecNormalizer == InitNormalizer /\ [][Next]_vars

RevenueInsights(revenue, capexGrowth) ==
    [BareInsights EXCEPT !.revenue = revenue, !.capexGrowth = capexGrowth]

ComparisonPayloads ==
    {RevenueInsights(Number(100), Nullish),
     RevenueInsights(Number(50), Number(20)),
     RevenueInsights(Number(200), NaN),
     RevenueInsights(Nullish, Number(-10)),
     RevenueInsights(NaN, Number(5)),
     RevenueInsights(Number(100), Number(20)),
     UndefinedInsights}

\* no record, one record for the first quarter of 2024, or one record for
\* the quarter before only
ComparisonLists ==
    ReportLists({QuarterInfo(1, 2024)}, ComparisonPayloads)
    \cup {<<Report(QuarterInfo(4, 2023), RevenueInsights(Number(300), Number(40)))>>}

\* the sector comparison: three companies of one sector, two of them of one
\* sub-category, and one company of another sector; the revenue and the
\* capexGrowth of each record vary
InitComparison ==
    /\ dataDir \in DataDirs({"AMD", "MRNA", "MSFT", "NVDA"}, ComparisonLists)
    /\ call = NoCall
    /\ result = NoResult

SpecComparison == InitComparison /\ [][Next]_vars

TableInsights(supplyChainStatus, headcountTrend, pricingPower) ==
    [BareInsights EXCEPT !.supplyChainStatus = supplyChainStatus,
                         !.headcountTrend = headcountTrend,
                         !.pricingPower = pricingPower]

\* recognized values, the "unknown" member, values out of the enums (names
\* of Object.prototype among them), empty strings and missing fields
TablePayloads ==
    {TableInsights("tight", "expanding", "strong"),
     TableInsights("easing", "stable", "moderate"),
     TableInsights("normal", "freezing", "weak"),
     TableInsights("unknown", "reducing", "unknown"),
     TableInsights("tight", "remote", "unknown"),
     TableInsights("critical", "expanding", "strong"),
     TableInsights("disrupted", "growing", "premium"),
     TableInsights("constructor", "hasOwnProperty", "__proto__"),
     TableInsights("", "", ""),
     BareInsights,
     UndefinedInsights}

\* frequency tables: three companies, one quarter, the three enum fields of
\* each record vary
InitTables ==
    /\ dataDir \in DataDirs({"AMD", "MSFT", "NVDA"},
                            ReportLists({QuarterInfo(1, 2024)}, TablePayloads))
    /\ call = NoCall
    /\ result = NoResult

SpecTables == InitTables /\ [][Next]_vars

SentimentInsights(sentiment) ==
    [BareInsights EXCEPT !.overallSentiment = sentiment]

SentimentPayloads ==
    {SentimentInsights(s) : s \in {"bullish", "bearish", "neutral", "Bullish"}}
    \cup {UndefinedInsights}

\* the other companies of the directory, in listing order
OtherTickers == <<"AAPL", "AMZN", "GOOGL", "INTC", "META", "MRNA", "QCOM">>

\* dir with a neutral record for the first n of the other companies
WithNeutralRecords(dir, n) ==
    [t \in Range(DirOrder) |->
        IF \E i \in 1..n : OtherTickers[i] = t
        THEN File(t, <<Report(QuarterInfo(1, 2024), SentimentInsights("neutral"))>>)
        ELSE dir[t]]

\* market sentiment: up to ten companies, one quarter, the overallSentiment
\* of three of them varies
InitSentiment ==
    /\ dataDir \in {WithNeutralRecords(dir, n) :
                       dir \in DataDirs({"AMD", "MSFT", "NVDA"},
                                        ReportLists({QuarterInfo(1, 2024)}, SentimentPayloads)),
                       n \in 0..Len(OtherTickers)}
    /\ call = NoCall
    /\ result = NoResult

SpecSentiment == InitSentiment /\ [][Next]_vars

ThemeInsights(ai, supplyChainStatus, guidanceDirection, headcountTrend) ==
    [BareInsights EXCEPT !.aiInvestmentMentioned = ai,
                         !.supplyChainStatus = supplyChainStatus,
                         !.guidanceDirection = guidanceDirection,
                         !.headcountTrend = headcountTrend]

ThemePayloads ==
    {ThemeInsights(TRUE, "easing", "raised", "reducing"),
     ThemeInsights(TRUE, "tight", "lowered", "expanding"),
     ThemeInsights(FALSE, "easing", "lowered", "reducing"),
     ThemeInsights(FALSE, "tight", "raised", "expanding"),
     ThemeInsights(TRUE, "normal", "maintained", "stable"),
     BareInsights,
     UndefinedInsights}

\* themes and sector buckets: four companies in three buckets, one quarter,
\* the fields the themes are decided on vary
InitThemes ==
    /\ dataDir \in DataDirs({"AMD", "MRNA", "MSFT", "NVDA"},
                            ReportLists({QuarterInfo(1, 2024)}, ThemePayloads))
    /\ call = NoCall
    /\ result = NoResult

SpecThemes == InitThemes /\ [][Next]_vars

\* the company a file may carry: the directory's entry, or an entry saved
\* before the directory moved the company to another sector or sub-category
StoredCompanies(ticker) ==
    LET listed == getCompanyByTicker(ticker)[1]
    IN  {listed,
         [listed EXCEPT !.sector = "Healthcare"],
         [listed EXCEPT !.subCategory = "Enterprise Software"]}

StoredFiles(ticker, lists) ==
    {[File(ticker, reports) EXCEPT !.company = company] :
        reports \in lists, company \in StoredCompanies(ticker)}

StoredPayloads ==
    {RevenueInsights(Number(100), Nullish),
     RevenueInsights(Number(50), Number(20)),
     RevenueInsights(Nullish, Number(-10))}

\* stored company metadata: three companies of one sector, one quarter, the
\* company saved with each file and the revenue of its record vary
InitStoredCompany ==
    /\ dataDir \in
           {[t \in Range(DirOrder) |-> IF t \in DOMAIN choice THEN choice[t] ELSE NoFile] :
               choice \in {c \in [{"AMD", "MSFT", "NVDA"} ->
                                     {NoFile} \cup UNION {StoredFiles(t, ReportLists(
                                         {QuarterInfo(1, 2024)}, StoredPayloads))
                                         : t \in {"AMD", "MSFT", "NVDA"}}] :
                              \A t \in DOMAIN c :
                                  c[t] = NoFile \/ c[t].company.ticker = t}}
    /\ call = NoCall
    /\ result = NoResult

SpecStoredCompany == InitStoredCompany /\ [][Next]_vars

(***************************************************************************)
(* The record set as the properties read it, independently of the code     *)
(* paths above.                                                            *)
(***************************************************************************)
IsMacro == call.op = "computeMacroAnalysis"

IsComparison == call.op = "getSectorComparison"

FileTickers == {t \in Range(DirOrder) : dataDir[t].kind = "file"}

ReportsOf(t) == IF dataDir[t].kind = "file" THEN Range(dataDir[t].reports) ELSE {}

AllLabels == {r.quarter : r \in UNION {ReportsOf(t) : t \in Range(DirOrder)}}

AllQuarterInfos == {r.quarterInfo : r \in UNION {ReportsOf(t) : t \in Range(DirOrder)}}

\* the tickers with a record labelled quarter
TickersWithRecord(quarter) == {t \in FileTickers : \E r \in ReportsOf(t) : r.quarter = quarter}

\* the tickers whose first record labelled quarter carries insights
TickersWithInsights(quarter) ==
    {t \in FileTickers :
        \E i \in 1..Len(dataDir[t].reports) :
            /\ dataDir[t].reports[i].quarter = quarter
            /\ \A j \in 1..(i - 1) : dataDir[t].reports[j].quarter # quarter
            /\ dataDir[t].reports[i].insights.kind = "object"}

NoDuplicates(seq) == \A i, j \in 1..Len(seq) : seq[i] = seq[j] => i = j

\* the directory with every record of another quarter, and every record
\* without insights, removed
OnlyQuarter(quarter) ==
    [t \in Range(DirOrder) |->
        IF dataDir[t].kind = "file"
        THEN [dataDir[t] EXCEPT !.reports =
                 Filter(dataDir[t].reports,
                        LAMBDA r : r.quarter = quarter /\ r.insights.kind = "object")]
        ELSE NoFile]

(***************************************************************************)
(* Period resolution and per-company selection.                            *)
(***************************************************************************)
\* C4: without targetQuarter the period is the lexicographically greatest
\* quarter label of all records, "Unknown" when there is no record; with a
\* targetQuarter the period is that targetQuarter.
C4_PeriodIsGreatestLabel ==
    IsMacro =>
        IF call.targetQuarter # NoTargetQuarter
        THEN result.period = call.targetQuarter[1]
        ELSE IF AllLabels = {} THEN result.period = "Unknown"
        ELSE /\ result.period \in AllLabels
             /\ \A label \in AllLabels : ~StringLess(result.period, label)

C4_Witness ==
    /\ IsMacro
    /\ call.targetQuarter = NoTargetQuarter
    /\ AllLabels = {"Q1 2024", "Q2 2024"}
    /\ result.period = "Q2 2024"

\* C5: without targetQuarter the period is the label of the chronologically
\* most recent quarter among the records, also across calendar years.
C5_PeriodIsMostRecent ==
    (IsMacro /\ call.targetQuarter = NoTargetQuarter /\ AllLabels # {}) =>
        \E latest \in AllQuarterInfos :
            /\ \A other \in AllQuarterInfos : ~Later(other, latest)
            /\ result.period = QuarterLabel(latest.calendarQuarter, latest.calendarYear)

\* C6 as stated: the companies are exactly the tickers with a record
\* labelled with the period.
C6_CompaniesHaveRecord ==
    IsMacro =>
        /\ Range(result.companies) = TickersWithRecord(result.period)
        /\ NoDuplicates(result.companies)

\* C6 as amended: the companies are exactly the tickers whose first record
\* labelled with the period carries insights, and the whole result is the
\* one computed from those records alone.
C6_CompaniesHaveInsights ==
    IsMacro =>
        /\ Range(result.companies) = TickersWithInsights(result.period)
        /\ NoDuplicates(result.companies)
        /\ result = computeMacroAnalysis(OnlyQuarter(result.period), <<result.period>>)

C6_Witness ==
    /\ IsMacro
    /\ result.period = "Q1 2024"
    /\ result.companies = <<"AMD">>
    /\ \E r \in ReportsOf("NVDA") : r.quarter = "Q2 2024" /\ r.insights = RichInsights
    /\ \E r \in ReportsOf("NVDA") : r.quarter = "Q1 2024" /\ r.insights = UndefinedInsights

ZeroCounts(table) == \A k \in DOMAIN table : table[k] = 0

\* C8: with no record at all, or a targetQuarter no company has a record
\* for, the result is the neutral one.
C8_EmptyInputIsNeutral ==
    (/\ IsMacro
     /\ \/ AllLabels = {}
        \/ /\ call.targetQuarter # NoTargetQuarter
           /\ call.targetQuarter[1] \notin AllLabels) =>
        /\ result.kind = "return"
        /\ result.companies = <<>>
        /\ result.aggregateInsights.averageCapexGrowth = Number(0)
        /\ result.aggregateInsights.companiesRaisingGuidance = 0
        /\ result.aggregateInsights.companiesLoweringGuidance = 0
        /\ result.aggregateInsights.aiInvestmentCount = 0
        /\ ZeroCounts(result.aggregateInsights.supplyChainSentiment)
        /\ ZeroCounts(result.aggregateInsights.headcountTrends)
        /\ ZeroCounts(result.aggregateInsights.pricingPowerDistribution)
        /\ result.aggregateInsights.overallMarketSentiment = "neutral"
        /\ result.aggregateInsights.partnershipNetwork = <<>>
        /\ result.sectorAnalyses = <<>>
        /\ result.divergences = <<>>
        /\ result.topThemes = <<>>

C8_Witness ==
    /\ IsMacro
    /\ call.targetQuarter = <<"Q2 2024">>
    /\ AllLabels = {"Q4 2023", "Q1 2024"}
    /\ \E r \in ReportsOf("AMD") : r.insights = RichInsights
    /\ result.companies = <<>>

\* C9: neither entry point raises, whatever insights or optional fields the
\* records lack.
C9_NeverThrows == result.kind # "throw"

(***************************************************************************)
(* Scalar aggregates and divergences.                                      *)
(***************************************************************************)
\* the companies the period selects, and the insights selected for each
Selected == TickersWithInsights(result.period)

SelectedInsights(t) ==
    dataDir[t].reports[FindReport(dataDir[t].reports, result.period)].insights

\* the selected companies whose capexGrowth is present and not NaN
CapexReporters == {t \in Selected : SelectedInsights(t).capexGrowth.kind = "number"}

CapexOf(t) == SelectedInsights(t).capexGrowth.num

RECURSIVE CapexSum(_)
CapexSum(tickers) ==
    IF tickers = {} THEN 0
    ELSE LET t == CHOOSE x \in tickers : TRUE
         IN  CapexOf(t) + CapexSum(tickers \ {t})

\* C7: averageCapexGrowth is the mean of capexGrowth over the selected
\* companies that have a numeric one, and exactly 0, never NaN, when there is
\* none.
C7_AverageCapexIsNullSafeMean ==
    IsMacro =>
        LET average == result.aggregateInsights.averageCapexGrowth
        IN  /\ average.kind = "number"
            /\ IF CapexReporters = {} THEN average = Number(0)
               ELSE average.num * Cardinality(CapexReporters)
                        = CapexSum(CapexReporters) * average.den

C7_Witness ==
    /\ IsMacro
    /\ result.companies = <<"AMD", "MSFT", "NVDA">>
    /\ SelectedInsights("AMD").capexGrowth = NaN
    /\ SelectedInsights("MSFT").capexGrowth = Nullish
    /\ SelectedInsights("NVDA").capexGrowth = Nullish
    /\ result.aggregateInsights.averageCapexGrowth = Number(0)

DivergenceEntries(theme) ==
    {i \in 1..Len(result.divergences) : result.divergences[i].theme = theme}

\* one theme of the divergences list: an entry exactly when a side is
\* non-empty, with these winners and losers
DivergenceIs(theme, winners, losers) ==
    /\ (DivergenceEntries(theme) # {}) <=> (winners # {} \/ losers # {})
    /\ Cardinality(DivergenceEntries(theme)) <= 1
    /\ \A i \in DivergenceEntries(theme) :
           /\ Range(result.divergences[i].winners) = winners
           /\ Range(result.divergences[i].losers) = losers
           /\ NoDuplicates(result.divergences[i].winners)
           /\ NoDuplicates(result.divergences[i].losers)

\* C10: a "Guidance Direction" entry iff some selected company raised or
\* lowered guidance (winners the raisers, losers the lowerers), a "Capital
\* Expenditure" entry iff some selected company has capexGrowth > 20 or < -10
\* (winners above 20, losers below -10, both strict); no other entry.
C10_DivergenceEmission ==
    IsMacro =>
        /\ DivergenceIs("Guidance Direction",
               {t \in Selected : SelectedInsights(t).guidanceDirection = "raised"},
               {t \in Selected : SelectedInsights(t).guidanceDirection = "lowered"})
        /\ DivergenceIs("Capital Expenditure",
               {t \in CapexReporters : CapexOf(t) > 20},
               {t \in CapexReporters : CapexOf(t) < -10})
        /\ \A i \in 1..Len(result.divergences) :
               result.divergences[i].theme \in {"Guidance Direction", "Capital Expenditure"}

C10_Witness ==
    /\ IsMacro
    /\ result.companies = <<"AMD", "MSFT", "NVDA">>
    /\ SelectedInsights("AMD").capexGrowth = Number(25)
    /\ SelectedInsights("MSFT").capexGrowth = Number(-15)
    /\ SelectedInsights("NVDA").capexGrowth = Number(5)
    /\ result.divergences =
           <<[theme |-> "Capital Expenditure", winners |-> <<"AMD">>, losers |-> <<"MSFT">>]>>

(***************************************************************************)
(* Partnerships.                                                           *)
(***************************************************************************)
\* the raw mentions of a selected company, in order
RawMentions(t) ==
    IF SelectedInsights(t).partnerships.kind = "array"
    THEN SelectedInsights(t).partnerships.items ELSE <<>>

\* the canonical partners a selected company mentions at least once
PartnersOf(t) ==
    {normalizePartnerName(RawMentions(t)[i])[1] :
        i \in {j \in 1..Len(RawMentions(t)) : normalizePartnerName(RawMentions(t)[j]) # Null}}

CompaniesMentioning(partner, companies) == {t \in companies : partner \in PartnersOf(t)}

Network == result.aggregateInsights.partnershipNetwork

\* C1: every edge of the partnership network has mentions =
\* |connectedCompanies|, the connected companies being, without duplicates,
\* the selected companies with at least one mention that normalizes to the
\* partner.
C1_MentionsAreDistinctCompanies ==
    IsMacro =>
        \A i \in 1..Len(Network) :
            /\ Network[i].mentions = Len(Network[i].connectedCompanies)
            /\ NoDuplicates(Network[i].connectedCompanies)
            /\ Range(Network[i].connectedCompanies)
                   = CompaniesMentioning(Network[i].partner, Selected)

C1_Witness ==
    /\ IsMacro
    /\ Selected = {"AMD", "NVDA"}
    /\ RawMentions("AMD") = <<"MSFT", "Microsoft Corp">>
    /\ RawMentions("NVDA") = <<"FDA", "microsoft corporation">>
    /\ Network = <<[partner |-> "Microsoft", mentions |-> 2,
                    connectedCompanies |-> <<"AMD", "NVDA">>]>>

\* C2: in every sector bucket each topPartners entry's mentions is the
\* number of distinct companies of the bucket with a mention that normalizes
\* to that partner.
C2_SectorMentionsAreDistinctCompanies ==
    IsMacro =>
        \A k \in 1..Len(result.sectorAnalyses) :
            \A i \in 1..Len(result.sectorAnalyses[k].topPartners) :
                result.sectorAnalyses[k].topPartners[i].mentions
                    = Cardinality(CompaniesMentioning(
                          result.sectorAnalyses[k].topPartners[i].partner,
                          Range(result.sectorAnalyses[k].companies)))

\* the canonical partners of the selected companies, in order of first mention
CandidatePartners ==
    LET selected == Filter(DirOrder, LAMBDA t : t \in Selected)
        normalized == Flatten([k \in 1..Len(selected) |->
                          [i \in 1..Len(RawMentions(selected[k])) |->
                              normalizePartnerName(RawMentions(selected[k])[i])]])
        named == Filter(normalized, LAMBDA n : n # Null)
    IN  Distinct([i \in 1..Len(named) |-> named[i][1]])

\* C3: the network is sorted descending by mentions; if some partner is
\* mentioned by two or more companies it holds exactly those partners,
\* otherwise the first 15 candidate edges, so that it is then non-empty when
\* a candidate exists, has at most 15 entries, and every entry has mentions 1.
C3_NetworkQualityFilter ==
    IsMacro =>
        LET partners == [i \in 1..Len(Network) |-> Network[i].partner]
            shared == {p \in Range(CandidatePartners) :
                          Cardinality(CompaniesMentioning(p, Selected)) >= 2}
        IN  /\ NoDuplicates(partners)
            /\ \A i, j \in 1..Len(Network) :
                   i < j => Network[i].mentions >= Network[j].mentions
            /\ IF shared # {} THEN Range(partners) = shared
               ELSE /\ partners = Slice(CandidatePartners, 15)
                    /\ (CandidatePartners # <<>>) => Network # <<>>
                    /\ Len(Network) <= 15
                    /\ \A i \in 1..Len(Network) : Network[i].mentions = 1

C3_Witness ==
    /\ IsMacro
    /\ Len(CandidatePartners) = 16
    /\ \A i \in 1..Len(Network) : Network[i].mentions = 1
    /\ Len(Network) = 15

(***************************************************************************)
(* The partner name normalizer.                                            *)
(***************************************************************************)
IsNormalization == call.op = "normalizePartnerName"

Normalized == result.normalizedPartner

\* the entries of the result that come from partnerships lists
SectorTopPartners ==
    {result.sectorAnalyses[i].topPartners : i \in 1..Len(result.sectorAnalyses)}

\* C11: a raw name that is an alias-table key in any letter case and with
\* any white space around it normalizes to the table's canonical value for
\* that key, and is not discarded by the exclusion checks before the lookup;
\* "MSFT", "Microsoft Corp" and "microsoft corporation" all give "Microsoft".
C11_AliasGivesCanonicalName ==
    IsNormalization =>
        /\ \A key \in DOMAIN PARTNER_NAME_MAP :
               call.name \in Spellings(key) => Normalized = <<PARTNER_NAME_MAP[key]>>
        /\ call.name \in {"MSFT", "Microsoft Corp", "microsoft corporation"}
               => Normalized = <<"Microsoft">>

C11_Witness ==
    /\ IsNormalization
    /\ call.name = "  Microsoft corporation\t "
    /\ Len(trim(call.name)) >= SubstringExclusionMinLength
    /\ Normalized = <<"Microsoft">>

\* C12: a raw name that is an exclusion-set entry in any letter case
\* normalizes to null, before the alias table and the cleanup are consulted,
\* and a record that names only such entries adds no partnership edge.
C12_ExcludedGivesNull ==
    /\ IsNormalization =>
           \A entry \in EXCLUDED_PARTNERS :
               call.name \in Spellings(entry) => Normalized = Null
    /\ (/\ IsMacro
        /\ NamesOnFile(dataDir) \subseteq
               UNION {Spellings(entry) : entry \in EXCLUDED_PARTNERS})
           => /\ result.aggregateInsights.partnershipNetwork = <<>>
              /\ \A top \in SectorTopPartners : top = <<>>

C12_Witness ==
    \/ IsNormalization /\ call.name = "FDA" /\ Normalized = Null
    \/ /\ IsMacro
       /\ NamesOnFile(dataDir) = {"FDA"}
       /\ result.companies = <<"NVDA">>
       /\ result.aggregateInsights.partnershipNetwork = <<>>

\* the raw name lowered and trimmed, as the exclusion checks read it
LoweredName == trim(toLowerCase(call.name))

\* the raw name after suffix and parenthetical stripping
CleanedName ==
    trim(StripParentheticals(
             StripSuffix(StripSuffix(call.name, LegalSuffixes), DealSuffixes)))

\* discarded by the exact or by the partial exclusion check
NameIsExcluded ==
    \/ LoweredName \in EXCLUDED_PARTNERS
    \/ /\ Len(LoweredName) >= SubstringExclusionMinLength
       /\ \E excluded \in EXCLUDED_PARTNERS :
              includes(LoweredName, excluded) \/ includes(excluded, LoweredName)

\* C13: for a name that is not excluded and has no alias-table match, the
\* result is null when the cleaned string has more than 4 space-separated
\* tokens, a cleaned string of 4 or fewer tokens is not discarded by that
\* gate, and the result is null or a non-empty string.
C13_PlausibilityGate ==
    (IsNormalization /\ ~NameIsExcluded /\ LoweredName \notin DOMAIN PARTNER_NAME_MAP) =>
        /\ SplitLength(CleanedName) > MaxNameTokens => Normalized = Null
        /\ (/\ SplitLength(CleanedName) <= MaxNameTokens
            /\ CleanedName # ""
            /\ \A word \in descriptionWords : ~startsWith(LoweredName, word))
               => Normalized # Null
        /\ \/ Normalized = Null
           \/ Len(Normalized) = 1 /\ Normalized[1] # ""

(***************************************************************************)
(* The sector comparison.                                                  *)
(***************************************************************************)
\* the quarter a comparison is made for: the targetQuarter of the call, or
\* the quarter of the first record on the ticker's file
QuarterCompared ==
    IF call.targetQuarter # NoTargetQuarter THEN call.targetQuarter
    ELSE IF call.ticker \in FileTickers /\ dataDir[call.ticker].reports # <<>>
    THEN <<dataDir[call.ticker].reports[1].quarter>>
    ELSE <<>>

\* the four cases without data for the ticker
NothingToCompare ==
    \/ call.ticker \notin {COMPANIES[i].ticker : i \in DOMAIN COMPANIES}
    \/ call.ticker \notin FileTickers
    \/ dataDir[call.ticker].reports = <<>>
    \/ QuarterCompared = <<>>
    \/ call.ticker \notin TickersWithRecord(QuarterCompared[1])

\* C14: getSectorComparison returns null, without raising, when the ticker
\* is not in the Company Directory, has no entry in the record set, has an
\* empty record list or has no record for the resolved quarter; in every
\* other case it returns a non-null comparison.
C14_NullExactlyWithoutData ==
    IsComparison =>
        IF NothingToCompare THEN result = ReturnNull ELSE result.kind = "return"


\* the company of the directory with the ticker of the call
Target == CHOOSE company \in Range(COMPANIES) : company.ticker = call.ticker

\* the companies on file that have a record for the quarter compared and
\* are of the target's sector, and those of its sub-category as well
SectorPeers ==
    {t \in TickersWithRecord(QuarterCompared[1]) :
        \E company \in Range(COMPANIES) :
            company.ticker = t /\ company.sector = Target.sector}

SubCategoryPeers ==
    {t \in SectorPeers :
        \E company \in Range(COMPANIES) :
            company.ticker = t /\ company.subCategory = Target.subCategory}

\* the insights of a peer's record for the quarter compared
PeerInsights(t) ==
    dataDir[t].reports[FindReport(dataDir[t].reports, QuarterCompared[1])].insights

\* the revenue a peer is ranked by: a missing one counts as 0
RankedRevenue(t) ==
    IF PeerInsights(t).revenue.kind = "number" THEN PeerInsights(t).revenue.num ELSE 0

\* the positions the target may take in peers sorted descending by revenue
Positions(peers) ==
    LET above == {t \in peers : RankedRevenue(t) > RankedRevenue(call.ticker)}
        level == {t \in peers : RankedRevenue(t) = RankedRevenue(call.ticker)}
    IN  (Cardinality(above) + 1)..(Cardinality(above) + Cardinality(level))

\* C15: in a non-null result totalInSector is the number of companies on
\* file with a record for the resolved quarter and the target's sector, and
\* inSector is the target's 1-based position among them sorted descending by
\* revenue, a missing revenue ranked as 0; likewise inSubCategory and
\* totalInSubCategory for the peers that share the sub-category as well.  A
\* company without a record for that quarter is in neither list.
C15_RankingAmongPeers ==
    (IsComparison /\ result.kind = "return") =>
        /\ result.ranking.totalInSector = Cardinality(SectorPeers)
        /\ result.ranking.inSector \in Positions(SectorPeers)
        /\ result.ranking.totalInSubCategory = Cardinality(SubCategoryPeers)
        /\ result.ranking.inSubCategory \in Positions(SubCategoryPeers)

\* revenues AMD 100, NVDA 50, MSFT 200: NVDA is third of three
C15_Witness ==
    /\ IsComparison
    /\ call.ticker = "NVDA"
    /\ result.kind = "return"
    /\ SectorPeers = {"AMD", "MSFT", "NVDA"}
    /\ RankedRevenue("AMD") = 100
    /\ RankedRevenue("NVDA") = 50
    /\ RankedRevenue("MSFT") = 200
    /\ "MRNA" \in TickersWithRecord(QuarterCompared[1])
    /\ result.ranking.inSector = 3
    /\ result.ranking.totalInSector = 3
    /\ result.ranking.inSubCategory = 2
    /\ result.ranking.totalInSubCategory = 2


\* the first record on the file of the ticker of the call
OwnLatest == dataDir[call.ticker].reports[1]

\* C16: without targetQuarter the comparison is made for the quarter of the
\* ticker's own most recent record, also when other companies have later
\* quarters: the metrics are those of that record, the peers are the
\* companies with a record for that quarter, and the result is the one of a
\* call that names that quarter.
C16_OwnLatestQuarter ==
    (IsComparison /\ call.targetQuarter = NoTargetQuarter /\ result.kind = "return") =>
        /\ QuarterCompared = <<OwnLatest.quarter>>
        /\ result.companyMetrics = OwnLatest.insights
        /\ result.ranking.totalInSector = Cardinality(SectorPeers)
        /\ result.ranking.totalInSubCategory = Cardinality(SubCategoryPeers)
        /\ result = getSectorComparison(call.ticker, dataDir, <<OwnLatest.quarter>>)

\* AMD stops at the last quarter of 2023, NVDA goes on to 2024
C16_Witness ==
    /\ IsComparison
    /\ call.ticker = "AMD"
    /\ call.targetQuarter = NoTargetQuarter
    /\ result.kind = "return"
    /\ OwnLatest.quarter = "Q4 2023"
    /\ OwnLatest.insights = RichInsights
    /\ "NVDA" \in FileTickers
    /\ Len(dataDir["NVDA"].reports) = 2
    /\ dataDir["NVDA"].reports[1].quarter = "Q1 2024"
    /\ dataDir["NVDA"].reports[2].insights = BareInsights
    /\ result.companyMetrics = RichInsights
    /\ result.ranking.totalInSector = 2


\* the peers whose field is present and not NaN
Reporters(peers, field) == {t \in peers : PeerInsights(t)[field].kind = "number"}

RECURSIVE FieldSum(_, _)
FieldSum(tickers, field) ==
    IF tickers = {} THEN 0
    ELSE LET t == CHOOSE x \in tickers : TRUE
         IN  PeerInsights(t)[field].num + FieldSum(tickers \ {t}, field)

\* average is the mean of field over the peers that report it, and none
\* when there is no such peer
IsPeerMean(average, peers, field, none) ==
    IF Reporters(peers, field) = {} THEN average = none
    ELSE /\ average.kind = "number"
         /\ average.num * Cardinality(Reporters(peers, field))
                = FieldSum(Reporters(peers, field), field) * average.den

PeerAveragesAre(none) ==
    (IsComparison /\ result.kind = "return") =>
        /\ IsPeerMean(result.sectorAverages.capexGrowth, SectorPeers, "capexGrowth", none)
        /\ IsPeerMean(result.sectorAverages.revenue, SectorPeers, "revenue", none)
        /\ IsPeerMean(result.subCategoryAverages.capexGrowth, SubCategoryPeers,
                      "capexGrowth", none)
        /\ IsPeerMean(result.subCategoryAverages.revenue, SubCategoryPeers, "revenue", none)

\* C17 as stated: each peer average (sectorAverages and subCategoryAverages,
\* capexGrowth and revenue) is the mean over the peers whose value is present
\* and not NaN, and 0 when no peer of the set has the value.
C17_PeerAveragesZeroWhenNone == PeerAveragesAre(Number(0))

\* C17 as amended: each peer average is the mean over the peers whose value
\* is present and not NaN, and null when no peer of the set has the value.
C17_PeerAveragesNullWhenNone == PeerAveragesAre(Nullish)

\* capexGrowth missing for AMD, 20 for NVDA, NaN for MSFT
C17_Witness ==
    /\ IsComparison
    /\ call.ticker = "AMD"
    /\ result.kind = "return"
    /\ SectorPeers = {"AMD", "MSFT", "NVDA"}
    /\ PeerInsights("AMD") = RevenueInsights(Number(100), Nullish)
    /\ PeerInsights("NVDA") = RevenueInsights(Number(50), Number(20))
    /\ PeerInsights("MSFT") = RevenueInsights(Number(200), NaN)
    /\ result.sectorAverages.capexGrowth = Number(20)
    /\ result.sectorAverages.revenue = Fraction(350, 3)
    /\ result.subCategoryAverages.revenue = Number(75)


(***************************************************************************)
(* Sector buckets and frequency tables.                                    *)
(***************************************************************************)
\* the companies of a sector bucket whose capexGrowth is present and not NaN
BucketReporters(analysis) ==
    {t \in Range(analysis.companies) : SelectedInsights(t).capexGrowth.kind = "number"}

\* C19: the averageCapexGrowth of every sector bucket is the mean of
\* capexGrowth over the bucket's companies that have one that is present and
\* not NaN, and 0 when there is none; a NaN capexGrowth never makes it NaN.
C19_SectorAverageIsNullSafeMean ==
    IsMacro =>
        \A k \in 1..Len(result.sectorAnalyses) :
            LET analysis == result.sectorAnalyses[k]
                average == analysis.averageCapexGrowth
            IN  /\ average.kind = "number"
                /\ IF BucketReporters(analysis) = {} THEN average = Number(0)
                   ELSE average.num * Cardinality(BucketReporters(analysis))
                            = CapexSum(BucketReporters(analysis)) * average.den


\* the keys of the three frequency tables
SupplyChainKeys == {"tight", "easing", "normal", "unknown"}

HeadcountKeys == {"expanding", "stable", "freezing", "reducing"}

PricingPowerKeys == {"strong", "moderate", "weak", "unknown"}

\* the selected companies whose field has the value
SelectedWith(field, value) == {t \in Selected : SelectedInsights(t)[field] = value}

RECURSIVE BucketSum(_, _)
BucketSum(table, keys) ==
    IF keys = {} THEN 0
    ELSE LET k == CHOOSE x \in keys : TRUE
         IN  table[k] + BucketSum(table, keys \ {k})

\* every bucket of keys counts the selected companies with its own value,
\* every bucket of the other keys is 0, and the buckets sum to at most the
\* number of selected companies
CountsOwnValues(table, field, keys) ==
    /\ \A k \in keys : table[k] = Cardinality(SelectedWith(field, k))
    /\ \A k \in DOMAIN table \ keys : table[k] = 0
    /\ BucketSum(table, DOMAIN table) <= Cardinality(Selected)

\* C18: a supplyChainStatus, headcountTrend or pricingPower that is not a
\* key of its frequency table increments no bucket and raises no error; a
\* recognized value increments exactly its own bucket by one per selected
\* company, so the buckets of each table sum to at most the number of
\* selected companies.
C18_OffEnumValuesAreDropped ==
    IsMacro =>
        /\ result.kind = "return"
        /\ DOMAIN result.aggregateInsights.supplyChainSentiment = SupplyChainKeys
        /\ DOMAIN result.aggregateInsights.headcountTrends = HeadcountKeys
        /\ DOMAIN result.aggregateInsights.pricingPowerDistribution = PricingPowerKeys
        /\ CountsOwnValues(result.aggregateInsights.supplyChainSentiment,
                           "supplyChainStatus", SupplyChainKeys)
        /\ CountsOwnValues(result.aggregateInsights.headcountTrends,
                           "headcountTrend", HeadcountKeys)
        /\ CountsOwnValues(result.aggregateInsights.pricingPowerDistribution,
                           "pricingPower", PricingPowerKeys)

\* two companies with values out of the enums next to one with recognized
\* values
C18_Witness ==
    /\ IsMacro
    /\ result.companies = <<"AMD", "MSFT", "NVDA">>
    /\ SelectedInsights("AMD") = TableInsights("constructor", "hasOwnProperty", "__proto__")
    /\ SelectedInsights("MSFT") = TableInsights("disrupted", "growing", "premium")
    /\ SelectedInsights("NVDA") = TableInsights("tight", "expanding", "strong")
    /\ BucketSum(result.aggregateInsights.supplyChainSentiment, SupplyChainKeys) = 1
    /\ BucketSum(result.aggregateInsights.headcountTrends, HeadcountKeys) = 1
    /\ BucketSum(result.aggregateInsights.pricingPowerDistribution, PricingPowerKeys) = 1

\* C20 as stated: a selected company whose supplyChainStatus or pricingPower
\* is "unknown" increments no bucket of supplyChainSentiment or
\* pricingPowerDistribution, just like a value out of the enum.
C20_UnknownIncrementsNoBucket ==
    IsMacro =>
        /\ CountsOwnValues(result.aggregateInsights.supplyChainSentiment,
                           "supplyChainStatus", SupplyChainKeys \ {"unknown"})
        /\ CountsOwnValues(result.aggregateInsights.pricingPowerDistribution,
                           "pricingPower", PricingPowerKeys \ {"unknown"})

\* C20 as amended: a selected company whose supplyChainStatus or pricingPower
\* is "unknown" increments the "unknown" bucket of the table by one and no
\* other bucket; only a value out of the enum increments no bucket.
C20_UnknownIsACountedBucket ==
    IsMacro =>
        /\ result.aggregateInsights.supplyChainSentiment["unknown"]
               = Cardinality(SelectedWith("supplyChainStatus", "unknown"))
        /\ result.aggregateInsights.pricingPowerDistribution["unknown"]
               = Cardinality(SelectedWith("pricingPower", "unknown"))
        /\ BucketSum(result.aggregateInsights.supplyChainSentiment,
                     SupplyChainKeys \ {"unknown"})
               = Cardinality(UNION {SelectedWith("supplyChainStatus", k)
                                    : k \in SupplyChainKeys \ {"unknown"}})
        /\ BucketSum(result.aggregateInsights.pricingPowerDistribution,
                     PricingPowerKeys \ {"unknown"})
               = Cardinality(UNION {SelectedWith("pricingPower", k)
                                    : k \in PricingPowerKeys \ {"unknown"}})

C20_Witness ==
    /\ IsMacro
    /\ result.companies = <<"AMD", "MSFT", "NVDA">>
    /\ SelectedInsights("AMD") = TableInsights("unknown", "reducing", "unknown")
    /\ SelectedInsights("MSFT") = TableInsights("tight", "remote", "unknown")
    /\ SelectedInsights("NVDA") = TableInsights("disrupted", "growing", "premium")
    /\ result.aggregateInsights.supplyChainSentiment["unknown"] = 1
    /\ result.aggregateInsights.supplyChainSentiment["tight"] = 1
    /\ result.aggregateInsights.pricingPowerDistribution["unknown"] = 2


(***************************************************************************)
(* The steps of the partner name normalizer.                               *)
(***************************************************************************)
\* the raw name contains an excluded term or is contained in one
PartialMatch ==
    \E excluded \in EXCLUDED_PARTNERS :
        includes(LoweredName, excluded) \/ includes(excluded, LoweredName)

\* the steps after the exclusion checks keep the name
KeptByLaterSteps ==
    /\ LoweredName \notin DOMAIN PARTNER_NAME_MAP \cup DOMAIN ObjectPrototype
    /\ SplitLength(CleanedName) <= MaxNameTokens
    /\ \A word \in descriptionWords : ~startsWith(LoweredName, word)
    /\ CleanedName # ""

\* C21: the substring exclusion check discards a name exactly when its
\* lowercased, trimmed form has at least 20 characters and contains an
\* excluded term or is contained in one; a name of fewer than 20 characters
\* is never discarded by this check.
C21_SubstringExclusionNeedsLength ==
    (IsNormalization /\ LoweredName \notin EXCLUDED_PARTNERS) =>
        IF Len(LoweredName) >= 20 /\ PartialMatch THEN Normalized = Null
        ELSE /\ LoweredName \in DOMAIN PARTNER_NAME_MAP
                    => Normalized = <<PARTNER_NAME_MAP[LoweredName]>>
             /\ KeptByLaterSteps => Normalized = <<CleanedName>>

\* a short name that contains the excluded term "apollo"
C21_Witness ==
    /\ IsNormalization
    /\ call.name = "Apollo Tyres"
    /\ includes(LoweredName, "apollo")
    /\ "apollo" \in EXCLUDED_PARTNERS
    /\ Normalized = <<"Apollo Tyres">>


\* the name is not excluded and has no alias: it reaches the cleanup
ReachesCleanup == ~NameIsExcluded /\ LoweredName \notin DOMAIN PARTNER_NAME_MAP

\* s ends, in any letter case, with one of the words after white space
EndsWithWord(s, words) ==
    \E w \in words :
        /\ Len(w) < Len(s)
        /\ endsWith(toLowerCase(s), w)
        /\ IsSpace(CharAt(s, Len(s) - Len(w)))

HasParenthetical(s) ==
    \E i, j \in 1..Len(s) : i < j /\ CharAt(s, i) = "(" /\ CharAt(s, j) = ")"

\* C22: a string returned by the heuristic cleanup contains no parenthetical
\* and ends with no legal suffix and no deal descriptor, in whatever order
\* those parts appear in the raw name and whatever white space surrounds it.
C22_CleanedHasNoSuffix ==
    (IsNormalization /\ ReachesCleanup /\ Len(Normalized) = 1) =>
        /\ ~HasParenthetical(Normalized[1])
        /\ ~EndsWithWord(Normalized[1], LegalSuffixes)
        /\ ~EndsWithWord(Normalized[1], DealSuffixes)

\* C23: a name that passed the earlier steps is discarded if and only if
\* its cleaned string begins with one of the description words, and is
\* returned otherwise.
C23_DescriptionGateOnCleaned ==
    (/\ IsNormalization
     /\ ReachesCleanup
     /\ LoweredName \notin DOMAIN ObjectPrototype
     /\ SplitLength(CleanedName) <= MaxNameTokens
     /\ CleanedName # "") =>
        IF \E word \in descriptionWords : startsWith(toLowerCase(CleanedName), word)
        THEN Normalized = Null
        ELSE Normalized = <<CleanedName>>

\* C29: two raw names that differ only in letter case normalize to the same
\* value, whether the exclusion set, the alias table or the heuristic
\* cleanup resolves them.
C29_CaseInsensitiveResult ==
    IsNormalization =>
        /\ normalizePartnerName(toUpperCase(call.name)) = Normalized
        /\ normalizePartnerName(toLowerCase(call.name)) = Normalized


(***************************************************************************)
(* Market sentiment, themes and sector buckets.                            *)
(***************************************************************************)
\* the selected companies whose overallSentiment is the value
Sentimental(value) == SelectedWith("overallSentiment", value)

\* the sum of the scores: +1 for bullish, -1 for bearish, 0 for the rest
ScoreSum == Cardinality(Sentimental("bullish")) - Cardinality(Sentimental("bearish"))

\* C24: overallMarketSentiment is "bullish" if and only if the average score
\* of the selected companies (bullish +1, bearish -1, anything else 0) is
\* strictly greater than 0.3, "bearish" if and only if it is strictly less
\* than -0.3, and "neutral" otherwise, also for an average of exactly 0.3 or
\* -0.3 and when no company is selected.
C24_SentimentThresholds ==
    IsMacro =>
        LET sentiment == result.aggregateInsights.overallMarketSentiment
            count == Cardinality(Selected)
        IN  /\ sentiment = "bullish" <=> (count > 0 /\ 10 * ScoreSum > 3 * count)
            /\ sentiment = "bearish" <=> (count > 0 /\ 10 * ScoreSum < -3 * count)
            /\ sentiment \in {"bullish", "bearish", "neutral"}

\* three bullish companies of ten: the average is exactly 0.3
C24_Witness ==
    /\ IsMacro
    /\ Cardinality(Selected) = 10
    /\ Sentimental("bullish") = {"AMD", "MSFT", "NVDA"}
    /\ Sentimental("bearish") = {}
    /\ result.aggregateInsights.overallMarketSentiment = "neutral"


\* the number of selected companies whose field has the value
Tally(field, value) == Cardinality(SelectedWith(field, value))

AiMentioners == {t \in Selected : SelectedInsights(t).aiInvestmentMentioned}

Theme(holds, name) == IF holds THEN <<name>> ELSE <<>>

\* the themes the rules of C25 give, in their order
ExpectedThemes ==
    Theme(2 * Cardinality(AiMentioners) > Cardinality(Selected),
          "AI Infrastructure Investment")
    \o Theme(Tally("supplyChainStatus", "easing") > Tally("supplyChainStatus", "tight"),
             "Supply Chain Easing")
    \o Theme(Tally("supplyChainStatus", "tight") > Tally("supplyChainStatus", "easing"),
             "Supply Chain Constraints")
    \o Theme(Tally("guidanceDirection", "raised") > 2 * Tally("guidanceDirection", "lowered"),
             "Optimistic Outlook")
    \o Theme(/\ ~(Tally("guidanceDirection", "raised")
                      > 2 * Tally("guidanceDirection", "lowered"))
             /\ Tally("guidanceDirection", "lowered") > Tally("guidanceDirection", "raised"),
             "Cautious Guidance")
    \o Theme(Tally("headcountTrend", "reducing") > Tally("headcountTrend", "expanding"),
             "Cost Cutting Measures")

\* C25: topThemes holds, in this order and each at most once, "AI
\* Infrastructure Investment" iff more than half the selected companies
\* mention AI; "Supply Chain Easing" iff easing > tight, else "Supply Chain
\* Constraints" iff tight > easing; "Optimistic Outlook" iff raised > 2 *
\* lowered, else "Cautious Guidance" iff lowered > raised; "Cost Cutting
\* Measures" iff reducing > expanding.  It never holds both supply-chain
\* themes nor both guidance themes, and is empty when no company is selected.
C25_ThemeRules ==
    IsMacro =>
        /\ result.topThemes = ExpectedThemes
        /\ NoDuplicates(result.topThemes)
        /\ ~({"Supply Chain Easing", "Supply Chain Constraints"}
                 \subseteq Range(result.topThemes))
        /\ ~({"Optimistic Outlook", "Cautious Guidance"} \subseteq Range(result.topThemes))
        /\ Selected = {} => result.topThemes = <<>>

\* two raise and one lowers: neither optimistic nor cautious
C25_Witness ==
    /\ IsMacro
    /\ Tally("guidanceDirection", "raised") = 2
    /\ Tally("guidanceDirection", "lowered") = 1
    /\ Cardinality(AiMentioners) = 2
    /\ Cardinality(Selected) = 3
    /\ "AI Infrastructure Investment" \in Range(result.topThemes)
    /\ "Optimistic Outlook" \notin Range(result.topThemes)
    /\ "Cautious Guidance" \notin Range(result.topThemes)

\* the (sector, subCategory) pair stored with a company's records
PairOf(t) == <<dataDir[t].company.sector, dataDir[t].company.subCategory>>

\* the selected companies that mention AI among the tickers
AiShare(tickers) == Cardinality({t \in tickers : t \in AiMentioners})

\* C26: sectorAnalyses partitions the selected companies by (sector,
\* subCategory): one entry per distinct pair among them, every selected
\* ticker in the companies of exactly one entry, no entry empty, the entry
\* sizes summing to the length of the companies list, and each entry's
\* aiInvestmentPercentage equal to (AI-mentioning companies of the bucket /
\* bucket size) * 100, between 0 and 100.
C26_SectorBucketsPartition ==
    IsMacro =>
        LET analyses == result.sectorAnalyses
            pair(k) == <<analyses[k].sector, analyses[k].subCategory>>
        IN  /\ {pair(k) : k \in 1..Len(analyses)} = {PairOf(t) : t \in Selected}
            /\ \A j, k \in 1..Len(analyses) : pair(j) = pair(k) => j = k
            /\ \A k \in 1..Len(analyses) :
                   /\ analyses[k].companies # <<>>
                   /\ NoDuplicates(analyses[k].companies)
                   /\ Range(analyses[k].companies) = {t \in Selected : PairOf(t) = pair(k)}
                   /\ analyses[k].aiInvestmentPercentage.kind = "number"
                   /\ analyses[k].aiInvestmentPercentage.num * Len(analyses[k].companies)
                          = 100 * AiShare(Range(analyses[k].companies))
                                * analyses[k].aiInvestmentPercentage.den
                   /\ ~Less(analyses[k].aiInvestmentPercentage, Number(0))
                   /\ ~Greater(analyses[k].aiInvestmentPercentage, Number(100))
            /\ \A t \in Selected :
                   Cardinality({k \in 1..Len(analyses) : t \in Range(analyses[k].companies)}) = 1
            /\ SumSeq([k \in 1..Len(analyses) |-> Len(analyses[k].companies)])
                   = Len(result.companies)

\* three buckets; one of the two semiconductor companies mentions AI
C26_Witness ==
    /\ IsMacro
    /\ result.companies = <<"AMD", "MRNA", "MSFT", "NVDA">>
    /\ Len(result.sectorAnalyses) = 3
    /\ result.sectorAnalyses[1].companies = <<"AMD", "NVDA">>
    /\ AiMentioners = {"NVDA", "MSFT"}
    /\ result.sectorAnalyses[1].aiInvestmentPercentage = Number(50)


\* the mentions of the tickers that normalize to a name: <<ticker, position,
\* name>> for each
CanonicalMentions(tickers) ==
    {m \in UNION {{<<t, i, normalizePartnerName(RawMentions(t)[i])>> :
                      i \in 1..Len(RawMentions(t))} : t \in tickers} :
        Len(m[3]) = 1}

\* topPartners follows the two-tier filter on the mentions given
TwoTier(top, mentions) ==
    LET count(p) == Cardinality({m \in mentions : m[3] = <<p>>})
        partners == {m[3][1] : m \in mentions}
        qualified == {p \in partners : count(p) >= 2}
        listed == {top[i].partner : i \in 1..Len(top)}
        Min(a, b) == IF a < b THEN a ELSE b
    IN  /\ \A i \in 1..Len(top) :
               top[i].partner \in partners /\ top[i].mentions = count(top[i].partner)
        /\ \A i, j \in 1..Len(top) : top[i].partner = top[j].partner => i = j
        /\ \A i, j \in 1..Len(top) : i < j => top[i].mentions >= top[j].mentions
        /\ \A p \in partners \ listed : \A i \in 1..Len(top) : count(p) <= top[i].mentions
        /\ IF qualified # {}
           THEN listed \subseteq qualified /\ Len(top) = Min(SectorTopSize, Cardinality(qualified))
           ELSE Len(top) = Min(SectorFallbackSize, Cardinality(partners))
        /\ partners # {} => top # <<>>

\* C27: the topPartners of every sector bucket is sorted descending by
\* mentions and follows the two-tier filter: when some partner of the bucket
\* has mentions >= 2 it holds only partners with mentions >= 2, at most 5 of
\* them; otherwise it holds the top 3 of the sorted list at most; so it is
\* non-empty whenever a mention of the bucket normalizes to a name.  The
\* mentions of a partner are counted as line 912 counts them, once per
\* mention.
C27_SectorTopPartnersTiers ==
    IsMacro =>
        \A k \in 1..Len(result.sectorAnalyses) :
            TwoTier(result.sectorAnalyses[k].topPartners,
                    CanonicalMentions(Range(result.sectorAnalyses[k].companies)))

\* two semiconductor companies name the same sixteen vendors: five are kept
C27_Witness ==
    /\ IsMacro
    /\ Selected = {"AMD", "NVDA"}
    /\ RawMentions("AMD") = ManyPartners
    /\ RawMentions("NVDA") = ManyPartners
    /\ Len(result.sectorAnalyses[1].topPartners) = 5
    /\ \A i \in 1..5 : result.sectorAnalyses[1].topPartners[i].mentions = 2


(***************************************************************************)
(* The sector comparison on files that carry their own company entry.      *)
(***************************************************************************)
\* C28: in a non-null result of getSectorComparison the target is in both
\* peer sets, so ranking.inSector >= 1 and ranking.inSubCategory >= 1, also
\* when the company stored with the target's records differs from its
\* directory entry.
C28_RankIsNeverZero ==
    (IsComparison /\ result.kind = "return") =>
        /\ result.ranking.inSector >= 1
        /\ result.ranking.inSubCategory >= 1

\* C30: in a non-null result of getSectorComparison the sub-category peers
\* are a sub-list of the sector peers in the same relative order, so
\* totalInSubCategory <= totalInSector and inSubCategory <= inSector, for
\* any revenues, ties and missing values included.
C30_SubCategoryWithinSector ==
    (IsComparison /\ result.kind = "return") =>
        /\ result.ranking.totalInSubCategory <= result.ranking.totalInSector
        /\ result.ranking.inSubCategory <= result.ranking.inSector

\* three sector peers with revenues 100, 100 and missing, two of them in the
\* target's sub-category; NVDA is second of its sector and of its sub-category
C30_Witness ==
    /\ IsComparison
    /\ call.ticker = "NVDA"
    /\ result.kind = "return"
    /\ \A t \in {"AMD", "MSFT", "NVDA"} :
           t \in FileTickers /\ dataDir[t].company = getCompanyByTicker(t)[1]
    /\ {"AMD", "MSFT", "NVDA"} \subseteq TickersWithRecord(QuarterCompared[1])
    /\ RankedRevenue("AMD") = 100
    /\ RankedRevenue("NVDA") = 100
    /\ RankedRevenue("MSFT") = 0
    /\ result.ranking.totalInSector = 3
    /\ result.ranking.totalInSubCategory = 2
    /\ result.ranking.inSector = 2
    /\ result.ranking.inSubCategory = 2

====
